---- MODULE Spec2Model ----
(***************************************************************************)
(* Turn orchestration protocol of the collection assistant                 *)
(* (src/test_gpt52_2_optimized.py): stage classifier, memory merge, Gate   *)
(* ("Critic"), StrategyEngine ("Meta"), ResponseGenerator ("Executor") and *)
(* the orchestrator handle_turn, with the text-generation oracle as a      *)
(* nondeterministic input.                                                 *)
(***************************************************************************)
EXTENDS Integers, Sequences, FiniteSets, TLC

(***************************************************************************)
(* Bounds of the model                                                     *)
(***************************************************************************)
\* number of handle_turn calls explored per behaviour
MaxTurns == 1
\* largest counter value the Gate or the parameter widgets may write
MaxCount == 1

(***************************************************************************)
(* Business rules                                                          *)
(***************************************************************************)
W_dpd == 10
W_bp == 15
W_pr == 20
Threshold3 == 30
Threshold4 == 60

Stages == {"Stage0", "Stage1", "Stage2", "Stage3", "Stage4"}

\* the thresholds taken as inclusive upper ends
calculate_stage_inclusive(dpd, broken_promises, payment_refusals) ==
    IF dpd < 0 THEN "Stage0"
    ELSE LET total_score == dpd * W_dpd + broken_promises * W_bp
                            + payment_refusals * W_pr
         IN  IF total_score = 0 THEN "Stage1"
             ELSE IF total_score <= Threshold3 THEN "Stage2"
             ELSE IF total_score <= Threshold4 THEN "Stage3"
             ELSE "Stage4"

\* the labels of the two middle bands exchanged
calculate_stage_bands_swapped(dpd, broken_promises, payment_refusals) ==
    IF dpd < 0 THEN "Stage0"
    ELSE LET total_score == dpd * W_dpd + broken_promises * W_bp
                            + payment_refusals * W_pr
         IN  IF total_score = 0 THEN "Stage1"
             ELSE IF total_score < Threshold3 THEN "Stage3"
             ELSE IF total_score < Threshold4 THEN "Stage2"
             ELSE "Stage4"

calculate_stage(dpd, broken_promises, payment_refusals) ==
    IF dpd < 0 THEN "Stage0"
    ELSE LET total_score == dpd * W_dpd + broken_promises * W_bp
                            + payment_refusals * W_pr
         IN  IF total_score = 0 THEN "Stage1"
             ELSE IF total_score < Threshold3 THEN "Stage2"
             ELSE IF total_score < Threshold4 THEN "Stage3"
             ELSE "Stage4"

\* the day bound taken as inclusive
sop_trigger_from_day_three(dpd, broken_promises) ==
    broken_promises >= 1 /\ dpd >= 3

sop_trigger_named_escalation(dpd, broken_promises) ==
    broken_promises >= 1 /\ dpd > 3

(***************************************************************************)
(* Schemas                                                                 *)
(***************************************************************************)
\* Python's None
None == [py |-> "None"]

Decision == {"CONTINUE", "ADAPT_WITHIN_STRATEGY", "ESCALATE_TO_META", "HANDOFF"}
PressureLevel == {"polite", "polite_firm", "firm"}

\* the empty dict {}
EmptyDict == [k \in {} |-> 0]

\* MicroEdits(): the defaults of the model class
MicroEdits == [ask_style |-> "open", confirmation_format |-> "none",
               tone |-> "polite", language |-> "zh"]

\* CriticResult(**data): the object pydantic builds, or Invalid when
\* validation raises (a required field missing, a decision outside
\* the Literal)
Invalid == [py |-> "ValidationError"]

CriticResult(data) ==
    IF /\ "decision" \in DOMAIN data
       /\ data.decision \in Decision
       /\ "decision_reason" \in DOMAIN data
    THEN [decision |-> data.decision,
          decision_reason |-> data.decision_reason,
          reason_codes |-> IF "reason_codes" \in DOMAIN data
                           THEN data.reason_codes ELSE <<>>,
          micro_edits_for_executor |-> MicroEdits,
          memory_write |-> IF "memory_write" \in DOMAIN data
                           THEN data.memory_write ELSE EmptyDict]
    ELSE Invalid

\* StrategyCard(**data).model_dump(): required strategy_id and stage,
\* pressure_level within the Literal, defaults for everything absent.
\* A strategy_id is the sequence of the fragments of its f-string, notes
\* the sequence of its text fragments (<<>> for None).
StrategyCard(data) ==
    IF /\ "strategy_id" \in DOMAIN data
       /\ "stage" \in DOMAIN data
       /\ ("pressure_level" \in DOMAIN data => data.pressure_level \in PressureLevel)
    THEN [strategy_id |-> data.strategy_id,
          stage |-> data.stage,
          today_kpi |-> IF "today_kpi" \in DOMAIN data
                        THEN data.today_kpi ELSE <<>>,
          pressure_level |-> IF "pressure_level" \in DOMAIN data
                             THEN data.pressure_level ELSE "polite",
          allowed_actions |-> IF "allowed_actions" \in DOMAIN data
                              THEN data.allowed_actions ELSE <<>>,
          guardrails |-> IF "guardrails" \in DOMAIN data
                         THEN data.guardrails ELSE <<>>,
          escalation_actions_allowed |->
              IF "escalation_actions_allowed" \in DOMAIN data
              THEN data.escalation_actions_allowed ELSE EmptyDict,
          params |-> IF "params" \in DOMAIN data THEN data.params ELSE EmptyDict,
          notes |-> IF "notes" \in DOMAIN data THEN data.notes ELSE <<>>]
    ELSE Invalid

(***************************************************************************)
(* The text-generation oracle                                              *)
(***************************************************************************)
\* What one use of the oracle does: constructing the client raises
\* (OpenAI(...) without a usable key), the API call raises, or a text
\* comes back.  A text is a JSON object alone ("json"), a JSON object in
\* a ``` fence ("fenced"), a JSON object inside prose ("prose"), or text
\* without any JSON object ("plain").
ClientRaise == [t |-> "ClientRaise"]
ApiRaise == [t |-> "ApiRaise"]
Text(form, data) == [t |-> "Text", form |-> form, data |-> data]
JsonForms == {"json", "fenced", "prose"}

\* the signal that a call raised an exception
Raised == [py |-> "Exception"]
\* the string f"Error: {str(e)}"
ErrorText == [form |-> "plain", data |-> [text |-> "Error"]]

call_llm_text(resp) ==
    IF resp.t = "ClientRaise" THEN Raised
    ELSE IF resp.t = "ApiRaise" THEN ErrorText
    ELSE [form |-> resp.form, data |-> resp.data]

clean_json_str(text) ==
    IF text.form \in {"fenced", "prose"}
    THEN [form |-> "json", data |-> text.data]
    ELSE text

\* json.loads: the parsed object, or Raised on text that is no JSON
json_loads(text) ==
    IF text.form = "json" THEN text.data ELSE Raised

(***************************************************************************)
(* Gate ("Critic")                                                         *)
(***************************************************************************)
critic_failed ==
    [decision |-> "ESCALATE_TO_META",
     decision_reason |-> <<"critic_failed_parse">>,
     reason_codes |-> <<"critic_failed">>,
     micro_edits_for_executor |-> MicroEdits,
     memory_write |-> EmptyDict]

\* the oracle call left outside the try: a client that cannot be
\* constructed propagates
call_critic_unguarded(resp) ==
    LET txt == call_llm_text(resp)
    IN  IF txt = Raised THEN Raised
        ELSE LET data == json_loads(clean_json_str(txt))
             IN  IF data = Raised THEN critic_failed
                 ELSE IF CriticResult(data) = Invalid THEN critic_failed
                 ELSE CriticResult(data)

call_critic(resp) ==
    LET txt == call_llm_text(resp)
    IN  IF txt = Raised THEN critic_failed
        ELSE LET data == json_loads(clean_json_str(txt))
             IN  IF data = Raised THEN critic_failed
                 ELSE IF CriticResult(data) = Invalid THEN critic_failed
                 ELSE CriticResult(data)

(***************************************************************************)
(* Memory helpers                                                          *)
(***************************************************************************)
\* dict.get(key, default)
Get(d, key, default) == IF key \in DOMAIN d THEN d[key] ELSE default

\* Python values as the merge sees them.  A str whose length or content
\* matters (reason_detail) is the sequence of its tokens: a token is a
\* single character (" ", "|") or a run of other characters.  The values
\* under the cumulative list keys are lists of str or a bare str; the
\* values under the keys of DictFields are dicts or None; no other key
\* holds a dict.
ObstacleItems == {"o1", "o2", "o3"}
IsList(v) == v \in Seq(ObstacleItems)
DictFields == {"strategy_card", "last_critic", "last_turn_telemetry"}
IsDict(k, v) == k \in DictFields /\ v # None

cumulative_list_fields == {"unresolved_obstacles", "history_raw_reasons"}

\* item in current_list
Contains(list, item) == \E i \in DOMAIN list : list[i] = item

\* the dedup loop with the membership test left out
RECURSIVE AppendAll(_, _)
AppendAll(current_list, new_items) ==
    IF new_items = <<>> THEN current_list
    ELSE AppendAll(Append(current_list, Head(new_items)), Tail(new_items))

\* for item in new_items: if item not in current_list: append
RECURSIVE AppendNew(_, _)
AppendNew(current_list, new_items) ==
    IF new_items = <<>> THEN current_list
    ELSE AppendNew(IF Contains(current_list, Head(new_items))
                   THEN current_list
                   ELSE Append(current_list, Head(new_items)),
                   Tail(new_items))

\* the patch taken as the new list: last write wins
merge_list_overwrite(memory, k, v) == IF IsList(v) THEN v ELSE <<v>>

\* rule 1: the list stored under a cumulative key after the merge
merge_list(memory, k, v) ==
    LET got == Get(memory, k, <<>>)
        current_list == IF IsList(got) THEN got
                        ELSE IF got # "" THEN <<got>> ELSE <<>>
        new_items == IF IsList(v) THEN v ELSE <<v>>
    IN  AppendNew(current_list, new_items)

\* str.strip(" | "): leading and trailing characters among ' ' and '|'
\* are removed
StripChars == {" ", "|"}
RECURSIVE lstrip(_)
lstrip(str) ==
    IF str # <<>> /\ Head(str) \in StripChars THEN lstrip(Tail(str)) ELSE str
RECURSIVE rstrip(_)
rstrip(str) ==
    IF str # <<>> /\ str[Len(str)] \in StripChars
    THEN rstrip(SubSeq(str, 1, Len(str) - 1))
    ELSE str
strip(str) == rstrip(lstrip(str))

\* rule 2: is reason_detail assigned, and to what
reason_detail_changes(memory, v) ==
    v # <<>> /\ v # Get(memory, "reason_detail", <<>>)
merge_reason_detail(memory, v) ==
    LET old_val == Get(memory, "reason_detail", <<>>)
    IN  IF old_val # <<>>
        THEN strip(old_val \o <<" ", "|", " ">> \o v)
        ELSE v

\* no shallow merge: a map in the patch replaces the stored map
merged_value_replacing(memory, k, v) ==
    IF k \in cumulative_list_fields THEN merge_list(memory, k, v)
    ELSE IF k = "reason_detail" THEN merge_reason_detail(memory, v)
    ELSE v

\* the value merged[k] is assigned for a key k of memory_write
merged_value(memory, k, v) ==
    IF k \in cumulative_list_fields THEN merge_list(memory, k, v)
    ELSE IF k = "reason_detail" THEN merge_reason_detail(memory, v)
    ELSE IF IsDict(k, v) /\ k \in DOMAIN memory /\ IsDict(k, memory[k])
    THEN [f \in DOMAIN memory[k] \cup DOMAIN v |->
            IF f \in DOMAIN v THEN v[f] ELSE memory[k][f]]
    ELSE v

\* the keys of memory_write the loop assigns in merged
assigned_keys(memory, memory_write) ==
    {k \in DOMAIN memory_write :
        k = "reason_detail" => reason_detail_changes(memory, memory_write[k])}

\* the dict apply_memory_write returns
apply_memory_write(memory, memory_write) ==
    IF DOMAIN memory_write = {} THEN memory
    ELSE [k \in DOMAIN memory \cup assigned_keys(memory, memory_write) |->
            IF k \in assigned_keys(memory, memory_write)
            THEN merged_value(memory, k, memory_write[k])
            ELSE memory[k]]

\* the dict passed as memory, as the call leaves it: merged is a shallow
\* copy, so a list found under a cumulative key is the caller's list and
\* the appends of rule 1 land in it
memory_after_merge(memory, memory_write) ==
    [k \in DOMAIN memory |->
        IF /\ k \in cumulative_list_fields
           /\ k \in DOMAIN memory_write
           /\ IsList(memory[k])
        THEN merge_list(memory, k, memory_write[k])
        ELSE memory[k]]

\* is the returned dict the very object passed as memory?
returns_argument(memory_write) == DOMAIN memory_write = {}

\* dict.update(other)
Update(d, other) ==
    [k \in DOMAIN d \cup DOMAIN other |->
        IF k \in DOMAIN other THEN other[k] ELSE d[k]]

(***************************************************************************)
(* StrategyEngine ("Meta") and the default strategy catalog                *)
(***************************************************************************)
\* the per-stage template built at the end of ensure_strategy_card; the
\* last branch is an else: it serves every stage value that is none of
\* Stage0..Stage3
DefaultCard(memory_state, stage) ==
    IF stage = "Stage0" THEN
        [strategy_id |-> <<stage, "_relationship_building">>,
         stage |-> stage,
         today_kpi |-> <<"step1_build_trust_and_introduce_benefits",
                         "step2_explain_incentive_programs",
                         "step3_confirm_payment_method_and_remind_due_date">>,
         pressure_level |-> "polite",
         allowed_actions |-> <<"inform_benefits", "offer_discount",
                               "confirm_payment_method",
                               "ask_preferred_contact_time">>,
         guardrails |-> <<"no_pressure", "positive_tone_only",
                          "focus_on_relationship">>,
         escalation_actions_allowed |-> EmptyDict,
         params |-> [conversation_flow |-> "relationship_building",
                     current_stage_pressure_level |-> 1],
         notes |-> <<"stage0_notes">>]
    ELSE IF stage = "Stage1" THEN
        [strategy_id |-> <<stage, "_gentle_reminder">>,
         stage |-> stage,
         today_kpi |-> <<"step1_remind_due_today_with_positivity",
                         "step2_ask_payment_plan_and_ability",
                         "step3_mention_benefits_of_full_payment_today">>,
         pressure_level |-> "polite",
         allowed_actions |-> <<"ask_pay_today", "ask_payment_time",
                               "offer_extension_if_eligible", "ask_reasons",
                               "explore_fund_sources">>,
         guardrails |-> <<"today_only_for_dpd_ge_0", "no_threats",
                          "gentle_tone">>,
         escalation_actions_allowed |-> EmptyDict,
         params |-> [conversation_flow |-> "information_gathering",
                     current_stage_pressure_level |-> 3],
         notes |-> <<"stage1_notes">>]
    ELSE IF stage = "Stage2" THEN
        [strategy_id |-> <<stage, "_light_pressure">>,
         stage |-> stage,
         today_kpi |-> <<"step1_ask_full_payment_today_firmly",
                         "step2_explore_reasons_and_fund_sources",
                         "step3_mention_credit_impact_and_blacklist_warning",
                         "step4_negotiate_partial_payment_with_deadline">>,
         pressure_level |-> "polite_firm",
         allowed_actions |-> <<"ask_pay_today", "forced_choice_amount_time",
                               "mention_credit_impact",
                               "mention_blacklist_warning",
                               "explore_fund_sources",
                               "offer_extension_if_eligible",
                               "negotiate_partial_today", "confirm_time">>,
         guardrails |-> <<"today_only_for_dpd_ge_0", "no_fake_threats",
                          "no_humiliation", "factual_consequences_only">>,
         escalation_actions_allowed |-> EmptyDict,
         params |-> [conversation_flow |-> "convergence",
                     current_stage_pressure_level |-> 5,
                     allow_partial |-> TRUE,
                     allow_extension |->
                         ~(Get(memory_state, "broken_promises", 0) >= 2)],
         notes |-> <<"stage2_notes">>]
    ELSE IF stage = "Stage3" THEN
        [strategy_id |-> <<stage, "_firm_escalation">>,
         stage |-> stage,
         today_kpi |-> <<"step1_acknowledge_customer_obstacle_if_exists",
                         "step2_force_binary_decision_today_or_never",
                         "step3_escalate_blacklist_and_credit_damage_warning",
                         "step4_mention_emergency_contact_involvement",
                         "step5_set_final_deadline_24_48_hours">>,
         pressure_level |-> "firm",
         allowed_actions |-> <<"binary_can_pay_today",
                               "mention_credit_blacklist",
                               "mention_emergency_contact_warning",
                               "mention_workplace_contact_possibility",
                               "set_hard_deadline", "process_notice",
                               "acknowledge_obstacle_but_emphasize_solution">>,
         guardrails |-> <<"today_only_for_dpd_ge_0", "no_fake_threats",
                          "compliance_notice_only",
                          "factual_consequences_only", "no_humiliation">>,
         escalation_actions_allowed |-> [mention_emergency_contact |-> TRUE],
         params |-> [conversation_flow |-> "binary_convergence",
                     current_stage_pressure_level |-> 7,
                     allow_partial |-> FALSE,
                     allow_extension |-> FALSE],
         notes |-> <<"stage3_notes">>]
    ELSE
        [strategy_id |-> <<stage, "_maximum_pressure">>,
         stage |-> stage,
         today_kpi |-> <<"step1_final_notice_about_debt_status",
                         "step2_escalate_third_party_collection_warning",
                         "step3_mention_social_media_and_workplace_contact",
                         "step4_process_formal_escalation_notice">>,
         pressure_level |-> "firm",
         allowed_actions |-> <<"binary_can_pay_today", "process_notice",
                               "mention_third_party_collection",
                               "mention_social_media_contact_warning",
                               "mention_workplace_contact_warning",
                               "final_notice">>,
         guardrails |-> <<"compliance_notice_only", "no_humiliation",
                          "factual_consequences_only",
                          "record_all_escalation_evidence">>,
         escalation_actions_allowed |->
             [contact_emergency |-> TRUE,
              contact_workplace |->
                  Get(memory_state, "sop_trigger_named_escalation", FALSE),
              social_media_mention |->
                  Get(memory_state, "sop_trigger_named_escalation", FALSE)],
         params |-> [conversation_flow |-> "formal_escalation",
                     current_stage_pressure_level |-> 9,
                     allow_partial |-> FALSE,
                     allow_extension |-> FALSE],
         notes |-> <<"stage4_notes">>]

\* memory_state.get("stage", calculate_stage(dpd, bp, pr))
current_stage_of(memory_state) ==
    Get(memory_state, "stage",
        calculate_stage(Get(memory_state, "dpd", 0),
                        Get(memory_state, "broken_promises", 0),
                        Get(memory_state, "payment_refusals", 0)))

\* the prior card is never kept: the catalog card is rebuilt on every call
ensure_strategy_card_always_default(memory_state, strategy_card) ==
    DefaultCard(memory_state, current_stage_of(memory_state))

\* the stage comparison left out: any valid prior card is kept
ensure_strategy_card_any_stage(memory_state, strategy_card) ==
    LET validated == StrategyCard(strategy_card)
    IN  IF /\ strategy_card # None
           /\ strategy_card # EmptyDict
           /\ validated # Invalid
        THEN validated
        ELSE DefaultCard(memory_state, current_stage_of(memory_state))

ensure_strategy_card(memory_state, strategy_card) ==
    LET validated == StrategyCard(strategy_card)
    IN  IF /\ strategy_card # None
           /\ strategy_card # EmptyDict
           /\ validated # Invalid
           /\ validated.stage = current_stage_of(memory_state)
        THEN validated
        ELSE DefaultCard(memory_state, current_stage_of(memory_state))

\* the dict returned by the except branch of call_meta
fallback_reconfirm(memory_state) ==
    [strategy_id |-> <<"fallback_reconfirm">>,
     stage |-> Get(memory_state, "stage", "Stage2"),
     today_kpi |-> <<"confirm_tomorrow_commitment",
                     "ask_small_amount_today_as_sincerity">>,
     pressure_level |-> "polite_firm",
     allowed_actions |-> <<"confirm_time", "ask_partial_today">>,
     guardrails |-> <<"no_mechanical_logic", "natural_confirmation">>,
     escalation_actions_allowed |-> EmptyDict,
     params |-> [tomorrow_promised |-> TRUE],
     notes |-> <<"fallback_notes">>]

\* no alignment: the card keeps the stage the oracle gave it
align_stage_trusting(memory_state, sc) == sc

\* the forced alignment of a validated card with memory_state["stage"]
align_stage(memory_state, sc) ==
    LET forced_stage == Get(memory_state, "stage", "None")
    IN  IF forced_stage # "None" /\ sc.stage # forced_stage
        THEN [sc EXCEPT !.stage = forced_stage]
        ELSE sc

call_meta(memory_state, resp) ==
    LET txt == call_llm_text(resp)
    IN  IF txt = Raised THEN fallback_reconfirm(memory_state)
        ELSE LET data == json_loads(clean_json_str(txt))
             IN  IF data = Raised THEN fallback_reconfirm(memory_state)
                 ELSE IF StrategyCard(data) = Invalid
                      THEN fallback_reconfirm(memory_state)
                 ELSE align_stage(memory_state, StrategyCard(data))

\* the Executor returns call_llm_text's result as is: Raised when the
\* client cannot be constructed, the sentinel "Error: ..." when the API
\* call fails
call_executor(resp) == call_llm_text(resp)

(***************************************************************************)
(* Session state                                                           *)
(***************************************************************************)
VARIABLES
    all_sessions,           \* st.session_state.all_sessions: id -> session
    active_session,         \* st.session_state.active_session
    pc,                     \* where the script is: "render", "idle", or the
                            \* oracle call handle_turn is waiting for
    outcome,                \* of the last handle_turn: "none", "completed"
                            \* (it returned) or "raised" (it threw)
    turns,                  \* handle_turn calls so far
    entry,                  \* the session as it was when handle_turn began
    telemetry,              \* handle_turn's local telemetry
    critic,                 \* handle_turn's local critic (the GateDecision)
    stage,                  \* handle_turn's local stage (pre-merge)
    new_calculated_stage,   \* handle_turn's local new_calculated_stage
    calls,                  \* the oracle calls of the turn, in order
    user_msg,               \* handle_turn's parameter
    call                    \* a component called on its own: function,
                            \* arguments and returned value

vars == <<all_sessions, active_session, pc, outcome, turns, entry,
          telemetry, critic, stage, new_calculated_stage, calls, user_msg,
          call>>

PlainText(s) == [form |-> "plain", data |-> [text |-> s]]

init_new_session(customer_id) ==
    [customer_id |-> customer_id,
     organization_name |-> "org",
     product_name |-> "credit_loan",
     debt_amount |-> 10000,
     currency |-> "yuan",
     dpd |-> 1,
     broken_promises |-> 0,
     payment_refusals |-> 0,
     extension_eligible |-> FALSE,
     approval_id |-> "APR-001",
     allowed_contact_hours |-> "08:00-20:00",
     stage |-> "Stage2",
     no_response_streak |-> 0,
     reason_category |-> "",
     ability_score |-> "",
     reason_detail |-> <<>>,
     unresolved_obstacles |-> <<>>,
     dialogue |-> <<>>,
     strategy_card |-> None,
     last_critic |-> None,
     history_summary |-> PlainText(""),
     history_events |-> <<>>]

\* the session handle_turn and the page work on
ActiveState == all_sessions[active_session]

SetActive(s) == [all_sessions EXCEPT ![active_session] = s]

(***************************************************************************)
(* Inputs                                                                  *)
(***************************************************************************)
UserMsgs == {"u1", "u2"}
DpdValues == {-1, 0, 1, 4}
CounterValues == 0 .. MaxCount
StageWrites == {"Stage1", "Stage3"}

\* the memory_write maps the Gate's oracle may return
CounterWrites(key) ==
    {EmptyDict} \cup {[k \in {key} |-> v] : v \in CounterValues}
StageKeyWrites ==
    {EmptyDict} \cup {[k \in {"stage"} |-> v] : v \in StageWrites}
MemoryWrites ==
    {Update(Update(b, p), s) : b \in CounterWrites("broken_promises"),
                               p \in CounterWrites("payment_refusals"),
                               s \in StageKeyWrites}

ValidCriticData ==
    {[decision |-> d, decision_reason |-> <<"reason">>,
      reason_codes |-> <<>>, memory_write |-> mw] :
        d \in Decision, mw \in MemoryWrites}
InvalidCriticData ==
    {[decision |-> "RETRY", decision_reason |-> <<"reason">>,
      memory_write |-> [payment_refusals |-> 0]],
     [decision_reason |-> <<"reason">>,
      memory_write |-> [broken_promises |-> 1]],
     EmptyDict}
Garbage == [t |-> "Text", form |-> "plain", data |-> [text |-> "garbage"]]
CriticOutputs ==
    {ClientRaise, ApiRaise, Garbage}
    \cup {Text(f, d) : f \in JsonForms, d \in ValidCriticData \cup InvalidCriticData}

MetaCard(s, p) ==
    [strategy_id |-> <<"meta_plan">>, stage |-> s,
     today_kpi |-> <<"kpi_from_meta">>, pressure_level |-> p,
     allowed_actions |-> <<"action_from_meta">>,
     guardrails |-> <<"guardrail_from_meta">>,
     escalation_actions_allowed |-> EmptyDict,
     params |-> EmptyDict, notes |-> <<"meta_notes">>]
ValidMetaData ==
    {MetaCard(s, "firm") : s \in Stages}
    \cup {[strategy_id |-> <<"meta_min">>, stage |-> "Stage1"]}
InvalidMetaData ==
    {[stage |-> "Stage3", pressure_level |-> "firm"],
     MetaCard("Stage2", "aggressive"),
     EmptyDict}
MetaOutputs ==
    {ClientRaise, ApiRaise, Garbage}
    \cup {Text(f, d) : f \in JsonForms, d \in ValidMetaData \cup InvalidMetaData}

ExecutorOutputs ==
    {ClientRaise, ApiRaise, Text("plain", [text |-> "reply"])}

(***************************************************************************)
(* The page and the orchestrator                                           *)
(***************************************************************************)
Init ==
    /\ all_sessions = [c \in {"C-demo"} |-> init_new_session("C-demo")]
    /\ active_session = "C-demo"
    /\ pc = "render"
    /\ outcome = "none"
    /\ turns = 0
    /\ entry = None
    /\ telemetry = None
    /\ critic = None
    /\ stage = "None"
    /\ new_calculated_stage = "None"
    /\ calls = <<>>
    /\ user_msg = "None"
    /\ call = [fn |-> "None"]

ResetLocals ==
    /\ entry' = None
    /\ telemetry' = None
    /\ critic' = None
    /\ stage' = "None"
    /\ new_calculated_stage' = "None"
    /\ calls' = <<>>
    /\ user_msg' = "None"

\* the parameter block of the page, run with the widget values dpd, bp,
\* pr: it stores them, refreshes the stage and ensures the card
refresh_parameters(state, dpd, bp, pr) ==
    LET s1 == Update(state, [dpd |-> dpd, broken_promises |-> bp,
                             payment_refusals |-> pr,
                             stage |-> calculate_stage(dpd, bp, pr)])
    IN  [s1 EXCEPT !.strategy_card = ensure_strategy_card(s1, s1.strategy_card)]

\* a script run after a handler called st.rerun(): the widgets show the
\* stored values
Render ==
    /\ pc = "render"
    /\ all_sessions' = SetActive(refresh_parameters(ActiveState,
                            ActiveState.dpd, ActiveState.broken_promises,
                            ActiveState.payment_refusals))
    /\ pc' = "idle"
    /\ outcome' = "none"
    /\ ResetLocals
    /\ UNCHANGED <<active_session, turns, call>>

\* the operator edits one of the number inputs (the external override);
\* explored while a turn can still follow
ParamOverride(field, v) ==
    /\ pc = "idle"
    /\ turns < MaxTurns
    /\ LET s == [ActiveState EXCEPT ![field] = v]
       IN  all_sessions' = SetActive(refresh_parameters(ActiveState,
                               s.dpd, s.broken_promises, s.payment_refusals))
    /\ outcome' = "none"
    /\ ResetLocals
    /\ UNCHANGED <<active_session, pc, turns, call>>

\* handle_turn up to the Gate's oracle call, as a function of the session:
\* the session it leaves and the locals telemetry and stage
handle_turn_begin(state, msg) ==
    LET card == state.strategy_card
        s1 == [state EXCEPT !.dialogue =
                   Append(@, [role |-> "user", content |-> PlainText(msg)])]
        dpd == Get(s1, "dpd", 0)
        bp == Get(s1, "broken_promises", 0)
        pr == Get(s1, "payment_refusals", 0)
        s2 == Update(s1, [stage |-> calculate_stage(dpd, bp, pr),
                          sop_trigger_named_escalation |->
                              sop_trigger_named_escalation(dpd, bp)])
        s3 == [s2 EXCEPT !.strategy_card =
                   ensure_strategy_card(s2, s2.strategy_card)]
    IN  [state |-> s3,
         telemetry |->
             [step1_critic |-> <<"Pending">>,
              step2_meta |-> <<"Skipped">>,
              step3_executor |-> "Pending",
              strategy_changed |-> FALSE,
              old_strategy_id |->
                  IF card # None /\ card # EmptyDict
                  THEN Get(card, "strategy_id", <<"None">>)
                  ELSE <<"None">>],
         stage |-> calculate_stage(dpd, bp, pr)]

BeginTurnBody(msg) ==
    /\ pc = "idle"
    /\ LET r == handle_turn_begin(ActiveState, msg)
       IN  /\ telemetry' = r.telemetry
           /\ entry' = ActiveState
           /\ stage' = r.stage
           /\ all_sessions' = SetActive(r.state)
    /\ pc' = "critic"
    /\ outcome' = "none"
    /\ turns' = turns + 1
    /\ critic' = None
    /\ new_calculated_stage' = "None"
    /\ calls' = <<>>
    /\ user_msg' = msg

BeginTurn(msg) ==
    /\ BeginTurnBody(msg)
    /\ UNCHANGED <<active_session, call>>

StartTurn(msg) ==
    /\ turns < MaxTurns
    /\ BeginTurn(msg)

\* the stage computed from the counters of a session
stage_of_counters(state) ==
    calculate_stage(Get(state, "dpd", 0),
                    Get(state, "broken_promises", 0),
                    Get(state, "payment_refusals", 0))

\* the re-check also fires when the last turn's telemetry reports a
\* strategy change
stage_shifted_or_flagged(state) ==
    \/ stage_of_counters(state) # state.stage
    \/ /\ "last_turn_telemetry" \in DOMAIN state
       /\ "strategy_changed" \in DOMAIN state.last_turn_telemetry
       /\ state.last_turn_telemetry.strategy_changed

\* the stage re-check after the merge: is the stored stage stale?
stage_shifted(state) == stage_of_counters(state) # state.stage

\* the re-check forgotten: the merged stage is kept as it is
stage_recheck_skipped(state) == state

\* the stage re-check after the merge: the session it leaves
stage_recheck(state) ==
    IF stage_shifted(state)
    THEN [state EXCEPT !.stage = stage_of_counters(state)]
    ELSE state

\* steps 1 and 2 of handle_turn and the stage re-check, as a function of
\* the session, the telemetry and the Gate's oracle response
handle_turn_critic(state, tel, resp) ==
    LET c == call_critic(resp)
        s1 == [state EXCEPT !.last_critic = c]
        new_memory == apply_memory_write(s1, c.memory_write)
        s2 == Update(s1, new_memory)
        new_stage == stage_of_counters(s2)
        shifted == stage_shifted(s2)
    IN  [state |-> stage_recheck(s2),
         new_calculated_stage |-> new_stage,
         telemetry |->
             [tel EXCEPT !.step1_critic =
                 IF shifted
                 THEN <<"Decision", c.decision, "Stage Shift",
                        s2.stage, new_stage>>
                 ELSE <<"Decision", c.decision>>],
         critic |->
             IF shifted /\ c.decision # "ESCALATE_TO_META"
             THEN [c EXCEPT !.decision = "ESCALATE_TO_META",
                            !.decision_reason = Append(@, "stage_shifted")]
             ELSE c]

\* the Gate's oracle call resolves; memory merge and stage re-check
CriticStepBody(resp) ==
    /\ pc = "critic"
    /\ LET r == handle_turn_critic(ActiveState, telemetry, resp)
       IN  /\ all_sessions' = SetActive(r.state)
           /\ new_calculated_stage' = r.new_calculated_stage
           /\ telemetry' = r.telemetry
           /\ critic' = r.critic
    /\ pc' = "meta"
    /\ calls' = Append(calls, "critic")
    /\ UNCHANGED <<active_session, outcome, turns, entry, stage, user_msg>>

CriticStep(resp) ==
    /\ CriticStepBody(resp)
    /\ UNCHANGED call

\* step 3 of handle_turn, as a function of the session, the telemetry, the
\* decision and the Meta oracle's response (read only on escalation)
handle_turn_meta(state, tel, decision, resp) ==
    IF decision = "ESCALATE_TO_META"
    THEN LET new_strategy == call_meta(state, resp)
         IN  [state |-> [state EXCEPT !.strategy_card = new_strategy],
              telemetry |->
                  [tel EXCEPT
                      !.strategy_changed =
                          Get(new_strategy, "strategy_id", <<"None">>)
                              # tel.old_strategy_id,
                      !.step2_meta =
                          <<"Success">>
                              \o Get(new_strategy, "strategy_id", <<"None">>)]]
    ELSE [state |-> state,
          telemetry |-> [tel EXCEPT !.step2_meta = <<"Skipped (Strategy Fit)">>]]

\* step 3 of handle_turn when the decision is ESCALATE_TO_META
MetaCall(resp) ==
    /\ pc = "meta"
    /\ critic.decision = "ESCALATE_TO_META"
    /\ LET r == handle_turn_meta(ActiveState, telemetry, critic.decision, resp)
       IN  /\ all_sessions' = SetActive(r.state)
           /\ telemetry' = r.telemetry
    /\ pc' = "executor"
    /\ calls' = Append(calls, "meta")
    /\ UNCHANGED <<active_session, outcome, turns, entry, critic, stage,
                   new_calculated_stage, user_msg, call>>

\* step 3 of handle_turn for every other decision
MetaSkip ==
    /\ pc = "meta"
    /\ critic.decision # "ESCALATE_TO_META"
    /\ telemetry' =
           handle_turn_meta(ActiveState, telemetry, critic.decision, None).telemetry
    /\ pc' = "executor"
    /\ UNCHANGED <<all_sessions, active_session, outcome, turns, entry, critic,
                   stage, new_calculated_stage, calls, user_msg, call>>

\* step 4 of handle_turn, as a function of the session, the telemetry and
\* the Executor's oracle response
handle_turn_executor(state, tel, resp) ==
    LET reply == call_executor(resp)
        done == [tel EXCEPT !.step3_executor = "Reply Sent"]
        s1 == [state EXCEPT !.dialogue =
                   Append(@, [role |-> "assistant", content |-> reply])]
    IN  IF reply = Raised
        THEN [state |-> state,
              telemetry |-> [tel EXCEPT !.step3_executor = "Generating Speech..."],
              outcome |-> "raised"]
        ELSE [state |-> Update(s1, [last_turn_telemetry |-> done]),
              telemetry |-> done,
              outcome |-> "completed"]

\* step 4 of handle_turn: the Executor's oracle call resolves
ExecutorStepBody(resp) ==
    /\ pc = "executor"
    /\ LET r == handle_turn_executor(ActiveState, telemetry, resp)
       IN  /\ telemetry' = r.telemetry
           /\ all_sessions' = SetActive(r.state)
           /\ outcome' = r.outcome
           /\ pc' = IF r.outcome = "raised" THEN "idle" ELSE "render"
    /\ calls' = Append(calls, "executor")
    /\ UNCHANGED <<active_session, turns, entry, critic, stage,
                   new_calculated_stage, user_msg>>

ExecutorStep(resp) ==
    /\ ExecutorStepBody(resp)
    /\ UNCHANGED call

Next ==
    \/ Render
    \/ \E v \in DpdValues : ParamOverride("dpd", v)
    \/ \E f \in {"broken_promises", "payment_refusals"}, v \in CounterValues :
           ParamOverride(f, v)
    \/ \E m \in UserMsgs : StartTurn(m)
    \/ \E r \in CriticOutputs : CriticStep(r)
    \/ \E r \in MetaOutputs : MetaCall(r)
    \/ MetaSkip
    \/ \E r \in ExecutorOutputs : ExecutorStep(r)

Spec == Init /\ [][Next]_vars

(***************************************************************************)
(* Sequences of automated turns: no parameter override, a narrower oracle  *)
(***************************************************************************)
MaxSeqTurns == 2

SeqCriticOutputs ==
    {Garbage}
    \cup {Text("json", [decision |-> d, decision_reason |-> <<"reason">>,
                        reason_codes |-> <<>>, memory_write |-> mw]) :
            d \in {"CONTINUE", "ESCALATE_TO_META"},
            mw \in {EmptyDict, [payment_refusals |-> 0],
                    [payment_refusals |-> 1], [stage |-> "Stage1"],
                    [payment_refusals |-> 1, stage |-> "Stage3"],
                    [dialogue |-> <<>>],
                    [strategy_card |-> [pressure_level |-> "firm"]]}}
SeqMetaOutputs == {Garbage, Text("json", MetaCard("Stage4", "firm"))}

NextTurn(msg) ==
    /\ turns < MaxSeqTurns
    /\ BeginTurn(msg)

\* the "clear dialogue" button: the explicit reset of the log
ClearDialogue ==
    /\ pc = "idle"
    /\ ActiveState.dialogue # <<>>
    /\ all_sessions' = SetActive([ActiveState EXCEPT !.dialogue = <<>>,
                                                     !.last_critic = None])
    /\ pc' = "render"
    /\ UNCHANGED <<active_session, outcome, turns, entry, telemetry, critic,
                   stage, new_calculated_stage, calls, user_msg, call>>

NextTurns ==
    \/ Render
    \/ ClearDialogue
    \/ NextTurn("u1")
    \/ \E r \in SeqCriticOutputs : CriticStep(r)
    \/ \E r \in SeqMetaOutputs : MetaCall(r)
    \/ MetaSkip
    \/ \E r \in ExecutorOutputs : ExecutorStep(r)

SpecTurns == Init /\ [][NextTurns]_vars

(***************************************************************************)
(* Long conversations: enough turns for the log to outgrow the window of   *)
(* recent turns passed to the oracle                                       *)
(***************************************************************************)
MaxLongTurns == 7

\* dialogue[-12:]
K == 12
recent_dialogue(dialogue) ==
    IF Len(dialogue) <= K THEN dialogue
    ELSE SubSeq(dialogue, Len(dialogue) - K + 1, Len(dialogue))

\* the payloads the three components serialise for the oracle
critic_payload(state) ==
    [strategy_card |-> state.strategy_card,
     memory_state |-> state,
     history_summary |-> state.history_summary,
     recent_dialogue |-> recent_dialogue(state.dialogue)]
meta_payload(state, critic_result) ==
    [memory_state |-> state,
     critic_result |-> critic_result,
     history_summary |-> state.history_summary,
     recent_dialogue |-> recent_dialogue(state.dialogue)]
\* the Executor is handed the catalog card of the stage, not the active card
executor_payload_catalog_card(state, micro) ==
    [strategy_card |-> DefaultCard(state, state.stage),
     memory_state |-> state,
     history_summary |-> state.history_summary,
     micro_edits |-> micro,
     recent_dialogue |-> recent_dialogue(state.dialogue)]

executor_payload(state, micro) ==
    [strategy_card |-> state.strategy_card,
     memory_state |-> state,
     history_summary |-> state.history_summary,
     micro_edits |-> micro,
     recent_dialogue |-> recent_dialogue(state.dialogue)]

\* is handle_turn waiting for an oracle call, and with which payload
OracleCallPending ==
    \/ pc \in {"critic", "executor"}
    \/ pc = "meta" /\ critic.decision = "ESCALATE_TO_META"
payload ==
    IF pc = "critic" THEN critic_payload(ActiveState)
    ELSE IF pc = "meta" THEN meta_payload(ActiveState, critic)
    ELSE executor_payload(ActiveState, critic.micro_edits_for_executor)

LongCriticOutputs ==
    {Garbage,
     Text("json", [decision |-> "CONTINUE", decision_reason |-> <<"reason">>,
                   reason_codes |-> <<>>, memory_write |-> EmptyDict])}
LongMetaOutputs == {Garbage}
LongExecutorOutputs == {ApiRaise, Text("plain", [text |-> "reply"])}

LongTurn(msg) ==
    /\ turns < MaxLongTurns
    /\ BeginTurn(msg)

NextLong ==
    \/ Render
    \/ LongTurn("u1")
    \/ \E r \in LongCriticOutputs : CriticStep(r)
    \/ \E r \in LongMetaOutputs : MetaCall(r)
    \/ MetaSkip
    \/ \E r \in LongExecutorOutputs : ExecutorStep(r)

SpecLong == Init /\ [][NextLong]_vars

(***************************************************************************)
(* Two runs of one turn side by side: the session and a copy of it that    *)
(* differs in last_turn_telemetry only, given the same user message and    *)
(* the same oracle responses.  The copy and its locals are held in call.   *)
(***************************************************************************)
MaxTwinTurns == 2

\* the telemetry handle_turn stores at the end of a turn
StoredTelemetry(changed) ==
    [step1_critic |-> <<"Decision", "CONTINUE">>,
     step2_meta |-> IF changed THEN <<"Success", "Stage3", "_firm_collection">>
                    ELSE <<"Skipped (Strategy Fit)">>,
     step3_executor |-> "Reply Sent",
     strategy_changed |-> changed,
     old_strategy_id |-> <<"Stage2", "_standard_collection">>]

\* None stands for a session without the key
TwinTelemetry == {None, StoredTelemetry(FALSE), StoredTelemetry(TRUE)}

WithoutTelemetry(state) ==
    [k \in DOMAIN state \ {"last_turn_telemetry"} |-> state[k]]

WithTelemetry(state, tv) ==
    IF tv = None THEN WithoutTelemetry(state)
    ELSE Update(state, [last_turn_telemetry |-> tv])

TwinCriticOutputs ==
    {Garbage}
    \cup {Text("json", [decision |-> d, decision_reason |-> <<"reason">>,
                        reason_codes |-> <<>>, memory_write |-> mw]) :
            d \in {"CONTINUE", "ESCALATE_TO_META"},
            mw \in {EmptyDict, [payment_refusals |-> 1],
                    [last_turn_telemetry |-> [strategy_changed |-> TRUE]]}}
TwinExecutorOutputs == {ApiRaise, Text("plain", [text |-> "reply"])}

TwinBegin(msg, tv) ==
    /\ call.fn = "None"
    /\ turns < MaxTwinTurns
    /\ WithTelemetry(ActiveState, tv) # ActiveState
    /\ BeginTurnBody(msg)
    /\ LET t == handle_turn_begin(WithTelemetry(ActiveState, tv), msg)
       IN  call' = [fn |-> "handle_turn",
                    entry_telemetry |-> tv,
                    state |-> t.state,
                    telemetry |-> t.telemetry,
                    critic |-> None,
                    outcome |-> "none"]
    /\ UNCHANGED active_session

TwinCritic(resp) ==
    /\ call.fn = "handle_turn"
    /\ CriticStepBody(resp)
    /\ LET t == handle_turn_critic(call.state, call.telemetry, resp)
       IN  call' = [call EXCEPT !.state = t.state,
                                !.telemetry = t.telemetry,
                                !.critic = t.critic]

\* step 3 of both runs: each run calls Meta if its own decision asks for it
TwinMeta(resp) ==
    /\ call.fn = "handle_turn"
    /\ pc = "meta"
    /\ LET r == handle_turn_meta(ActiveState, telemetry, critic.decision, resp)
           t == handle_turn_meta(call.state, call.telemetry,
                                 call.critic.decision, resp)
       IN  /\ all_sessions' = SetActive(r.state)
           /\ telemetry' = r.telemetry
           /\ calls' = IF critic.decision = "ESCALATE_TO_META"
                       THEN Append(calls, "meta") ELSE calls
           /\ call' = [call EXCEPT !.state = t.state,
                                   !.telemetry = t.telemetry]
    /\ pc' = "executor"
    /\ UNCHANGED <<active_session, outcome, turns, entry, critic, stage,
                   new_calculated_stage, user_msg>>

TwinExecutor(resp) ==
    /\ call.fn = "handle_turn"
    /\ ExecutorStepBody(resp)
    /\ LET t == handle_turn_executor(call.state, call.telemetry, resp)
       IN  call' = [call EXCEPT !.state = t.state,
                                !.telemetry = t.telemetry,
                                !.outcome = t.outcome]

\* the comparison is over: the copy is dropped
TwinReturn ==
    /\ call.fn = "handle_turn"
    /\ pc \in {"idle", "render"}
    /\ call' = [fn |-> "None"]
    /\ UNCHANGED <<all_sessions, active_session, pc, outcome, turns, entry,
                   telemetry, critic, stage, new_calculated_stage, calls,
                   user_msg>>

NextTwin ==
    \/ Render
    \/ \E m \in {"u1"}, tv \in TwinTelemetry : TwinBegin(m, tv)
    \/ \E r \in TwinCriticOutputs : TwinCritic(r)
    \/ \E r \in SeqMetaOutputs : TwinMeta(r)
    \/ \E r \in TwinExecutorOutputs : TwinExecutor(r)
    \/ TwinReturn

SpecTwin == Init /\ [][NextTwin]_vars

(***************************************************************************)
(* History import                                                          *)
(***************************************************************************)
MaxImports == 2
MaxHistTurns == 1

\* the dict build_history_summary returns, or Raised
build_history_summary(raw_text, resp) ==
    IF raw_text = "" THEN EmptyDict
    ELSE LET txt == call_llm_text(resp)
         IN  IF txt = Raised THEN Raised
             ELSE LET data == json_loads(clean_json_str(txt))
                  IN  IF data = Raised
                      THEN [summary |-> txt,
                            broken_promises |-> 0,
                            parse_error |-> "JSONDecodeError",
                            raw_llm_output |-> txt]
                      ELSE data

HistTexts == {"", "h1"}
HistoryData ==
    {[summary |-> PlainText("s1"), broken_promises |-> 1,
      reason_category |-> "unemployment", ability_score |-> "partial"],
     [broken_promises |-> 0]}
HistoryOutputs ==
    {ClientRaise, ApiRaise, Garbage}
    \cup {Text(f, d) : f \in {"json", "fenced"}, d \in HistoryData}

\* the import button of the page
HistoryImport(hist_text, resp) ==
    /\ pc = "idle"
    /\ hist_text # ""
    /\ Len(ActiveState.history_events) < MaxImports
    /\ LET result == build_history_summary(hist_text, resp)
           state == ActiveState
           s1 == Update(state,
                     [history_summary |-> Get(result, "summary", PlainText("")),
                      broken_promises |-> Get(result, "broken_promises", 0),
                      reason_category |-> Get(result, "reason_category", ""),
                      ability_score |-> Get(result, "ability_score", ""),
                      reason_detail |-> Get(result, "reason_detail", <<>>),
                      history_events |->
                          Append(state.history_events, [text |-> hist_text])])
       IN  IF result = Raised
           THEN /\ outcome' = "import_raised"
                /\ pc' = "idle"
                /\ UNCHANGED all_sessions
           ELSE /\ outcome' = IF "parse_error" \in DOMAIN result
                              THEN "import_parse_error" ELSE "imported"
                /\ pc' = "render"
                /\ all_sessions' = SetActive(s1)
    /\ ResetLocals
    /\ UNCHANGED <<active_session, turns, call>>

HistTurn(msg) ==
    /\ turns < MaxHistTurns
    /\ BeginTurn(msg)

NextHistory ==
    \/ Render
    \/ \E t \in HistTexts, r \in HistoryOutputs : HistoryImport(t, r)
    \/ HistTurn("u1")
    \/ \E r \in LongCriticOutputs : CriticStep(r)
    \/ \E r \in LongMetaOutputs : MetaCall(r)
    \/ MetaSkip
    \/ \E r \in LongExecutorOutputs : ExecutorStep(r)

SpecHistory == Init /\ [][NextHistory]_vars

(***************************************************************************)
(* Several customers: sessions are created and selected in the sidebar.    *)
(* call holds the identities of the list objects each init_new_session     *)
(* call allocated.                                                         *)
(***************************************************************************)
MaxCreated == 3
MaxSessTurns == 2

CustomerIds == {"C-demo", "C-new", "C-2"}

\* the fields init_new_session fills with a list display
ListFields == {"unresolved_obstacles", "dialogue", "history_events"}

\* a module-level template copied with dict(): every session gets the
\* template's own lists
init_new_session_objects_from_template(n) ==
    [f \in ListFields |-> [alloc |-> 0, site |-> f]]

\* the list objects of the dict the n-th call of init_new_session returns:
\* each [] in the function body is evaluated by the call and is a new object
init_new_session_objects(n) ==
    [f \in ListFields |-> [alloc |-> n, site |-> f]]

InitSessions ==
    /\ all_sessions = [c \in {"C-demo"} |-> init_new_session("C-demo")]
    /\ active_session = "C-demo"
    /\ pc = "render"
    /\ outcome = "none"
    /\ turns = 0
    /\ entry = None
    /\ telemetry = None
    /\ critic = None
    /\ stage = "None"
    /\ new_calculated_stage = "None"
    /\ calls = <<>>
    /\ user_msg = "None"
    /\ call = [fn |-> "init_new_session",
               allocs |-> 1,
               objects |-> [c \in {"C-demo"} |-> init_new_session_objects(1)]]

\* the "create session" button
CreateSession(new_cid) ==
    /\ pc = "idle"
    /\ new_cid \notin DOMAIN all_sessions
    /\ call.allocs < MaxCreated
    /\ all_sessions' = [c \in DOMAIN all_sessions \cup {new_cid} |->
                           IF c = new_cid THEN init_new_session(new_cid)
                           ELSE all_sessions[c]]
    /\ active_session' = new_cid
    /\ call' = [call EXCEPT
                   !.allocs = @ + 1,
                   !.objects = [c \in DOMAIN all_sessions \cup {new_cid} |->
                                   IF c = new_cid
                                   THEN init_new_session_objects(call.allocs + 1)
                                   ELSE call.objects[c]]]
    /\ pc' = "render"
    /\ outcome' = "none"
    /\ ResetLocals
    /\ UNCHANGED turns

\* the selectbox of the active customer
SelectSession(selected_session) ==
    /\ pc = "idle"
    /\ selected_session \in DOMAIN all_sessions
    /\ selected_session # active_session
    /\ active_session' = selected_session
    /\ pc' = "render"
    /\ outcome' = "none"
    /\ ResetLocals
    /\ UNCHANGED <<all_sessions, turns, call>>

SessTurn(msg) ==
    /\ turns < MaxSessTurns
    /\ BeginTurn(msg)

NextSessions ==
    \/ Render
    \/ \E c \in CustomerIds : CreateSession(c)
    \/ \E c \in CustomerIds : SelectSession(c)
    \/ SessTurn("u1")
    \/ \E r \in LongCriticOutputs : CriticStep(r)
    \/ \E r \in LongMetaOutputs : MetaCall(r)
    \/ MetaSkip
    \/ \E r \in LongExecutorOutputs : ExecutorStep(r)

SpecSessions == InitSessions /\ [][NextSessions]_vars

\* list(all_sessions.keys())[0]: a dict lists its keys in insertion order,
\* and the session created first holds the list objects allocated first
first_session_key(objects) ==
    CHOOSE c \in DOMAIN objects :
        \A d \in DOMAIN objects :
            objects[c].dialogue.alloc <= objects[d].dialogue.alloc

\* the last session may be deleted as well
delete_allowed_while_any(sessions) == Cardinality(DOMAIN sessions) >= 1

\* len(all_sessions) > 1
delete_allowed(sessions) == Cardinality(DOMAIN sessions) > 1

\* the "create session" button with an id the table holds: a warning is
\* shown and the script run goes on to draw the page
CreateExisting(new_cid) ==
    /\ pc = "idle"
    /\ new_cid \in DOMAIN all_sessions
    /\ all_sessions' = SetActive(refresh_parameters(ActiveState,
                            ActiveState.dpd, ActiveState.broken_promises,
                            ActiveState.payment_refusals))
    /\ outcome' = "id_exists"
    /\ ResetLocals
    /\ UNCHANGED <<active_session, pc, turns, call>>

\* the "delete session" button; [0] of an empty key list raises IndexError
\* before active_session is assigned
DeleteSession ==
    /\ pc = "idle"
    /\ IF delete_allowed(all_sessions)
       THEN LET rest == DOMAIN all_sessions \ {active_session}
            IN  /\ all_sessions' = [c \in rest |-> all_sessions[c]]
                /\ call' = [call EXCEPT
                               !.objects = [c \in rest |-> call.objects[c]]]
                /\ active_session' =
                       IF rest = {} THEN active_session
                       ELSE first_session_key([c \in rest |-> call.objects[c]])
                /\ pc' = "render"
                /\ outcome' = "deleted"
       ELSE /\ outcome' = "delete_refused"
            /\ UNCHANGED <<all_sessions, active_session, call, pc>>
    /\ ResetLocals
    /\ UNCHANGED turns

NextManage ==
    \/ NextSessions
    \/ \E c \in CustomerIds : CreateExisting(c)
    \/ DeleteSession

SpecManage == InitSessions /\ [][NextManage]_vars

(***************************************************************************)
(* Turns that are abandoned: the script run is stopped while handle_turn   *)
(* waits for an oracle call; what it wrote to the session so far stays     *)
(***************************************************************************)
Abandon ==
    /\ pc \in {"critic", "meta", "executor"}
    /\ pc' = "render"
    /\ outcome' = "abandoned"
    /\ UNCHANGED <<all_sessions, active_session, turns, entry, telemetry,
                   critic, stage, new_calculated_stage, calls, user_msg, call>>

NextAbandon ==
    \/ NextTurns
    \/ Abandon

SpecAbandon == Init /\ [][NextAbandon]_vars

(***************************************************************************)
(* Gate decisions: every decision, with and without the dead-loop reason   *)
(* code, over two turns                                                    *)
(***************************************************************************)
MaxGateTurns == 2

GateCriticOutputs ==
    {Garbage}
    \cup {Text("json", [decision |-> d, decision_reason |-> <<"reason">>,
                        reason_codes |-> rc, memory_write |-> mw]) :
            d \in Decision,
            rc \in {<<>>, <<"dead_loop_detected">>},
            mw \in {EmptyDict, [payment_refusals |-> 1],
                    [payment_refusals |-> 2]}}

GateTurn(msg) ==
    /\ turns < MaxGateTurns
    /\ BeginTurn(msg)

NextGate ==
    \/ Render
    \/ GateTurn("u1")
    \/ \E r \in GateCriticOutputs : CriticStep(r)
    \/ \E r \in SeqMetaOutputs : MetaCall(r)
    \/ MetaSkip
    \/ \E r \in LongExecutorOutputs : ExecutorStep(r)

SpecGate == Init /\ [][NextGate]_vars

(***************************************************************************)
(* One automated turn from the fresh session, with every outcome of the    *)
(* StrategyEngine's and the Executor's oracle                              *)
(***************************************************************************)
MaxScenarioTurns == 2

ScenarioCriticOutputs ==
    {ClientRaise}
    \cup {Text("json", [decision |-> d, decision_reason |-> <<"reason">>,
                        reason_codes |-> <<>>, memory_write |-> mw]) :
            d \in {"CONTINUE", "ESCALATE_TO_META"},
            mw \in {EmptyDict, [payment_refusals |-> 1]}}

ScenarioTurn(msg) ==
    /\ turns < MaxScenarioTurns
    /\ BeginTurn(msg)

NextScenario ==
    \/ Render
    \/ ScenarioTurn("u1")
    \/ \E r \in ScenarioCriticOutputs : CriticStep(r)
    \/ \E r \in MetaOutputs : MetaCall(r)
    \/ MetaSkip
    \/ \E r \in ExecutorOutputs : ExecutorStep(r)

SpecScenario == Init /\ [][NextScenario]_vars

(***************************************************************************)
(* Turns with the operator's counter edits between them: the counters of   *)
(* the named-escalation trigger move across Stage3 and Stage4              *)
(***************************************************************************)
MaxSopTurns == 2
SopDpdValues == {4, 6}
SopCriticOutputs ==
    {Text("json", [decision |-> "CONTINUE", decision_reason |-> <<"reason">>,
                   reason_codes |-> <<>>, memory_write |-> mw]) :
        mw \in {EmptyDict, [payment_refusals |-> 1]}}

\* the operator edits one of the number inputs between two turns
SopOverride(field, v) ==
    /\ pc = "idle"
    /\ turns < MaxSopTurns
    /\ LET s == [ActiveState EXCEPT ![field] = v]
       IN  all_sessions' = SetActive(refresh_parameters(ActiveState,
                               s.dpd, s.broken_promises, s.payment_refusals))
    /\ outcome' = "none"
    /\ ResetLocals
    /\ UNCHANGED <<active_session, pc, turns, call>>

SopTurn(msg) ==
    /\ turns < MaxSopTurns
    /\ BeginTurn(msg)

NextSop ==
    \/ Render
    \/ \E v \in SopDpdValues : SopOverride("dpd", v)
    \/ \E v \in CounterValues : SopOverride("broken_promises", v)
    \/ SopTurn("u1")
    \/ \E r \in SopCriticOutputs : CriticStep(r)
    \/ \E r \in LongMetaOutputs : MetaCall(r)
    \/ MetaSkip
    \/ \E r \in LongExecutorOutputs : ExecutorStep(r)

SpecSop == Init /\ [][NextSop]_vars

(***************************************************************************)
(* The components called on their own                                      *)
(***************************************************************************)
\* the sessions a component is called with: every parameter setting of
\* the page, stage refreshed and card ensured
CallStates ==
    {refresh_parameters(init_new_session("C-demo"), d, b, p) :
        d \in DpdValues, b \in CounterValues, p \in CounterValues}

\* the prior cards ensure_strategy_card is called with
PriorCards ==
    {None, EmptyDict,
     [stage |-> "Stage2", pressure_level |-> "firm"],
     MetaCard("Stage2", "aggressive"),
     [strategy_id |-> <<"meta_min">>, stage |-> "Stage1"]}
    \cup {MetaCard(st, "firm") : st \in Stages}
    \cup {DefaultCard(init_new_session("C-demo"), st) : st \in Stages}
    \cup {fallback_reconfirm(m) : m \in CallStates}

CallCritic(memory_state, resp) ==
    /\ call.fn = "None"
    /\ call' = [fn |-> "call_critic",
                memory_state |-> memory_state,
                resp |-> resp,
                ret |-> call_critic(resp),
                merged |-> IF call_critic(resp) = Raised THEN Raised
                           ELSE apply_memory_write(
                                    memory_state,
                                    call_critic(resp).memory_write)]
    /\ UNCHANGED <<all_sessions, active_session, pc, outcome, turns, entry,
                   telemetry, critic, stage, new_calculated_stage, calls,
                   user_msg>>

CallMeta(memory_state, resp) ==
    /\ call.fn = "None"
    /\ call' = [fn |-> "call_meta",
                memory_state |-> memory_state,
                resp |-> resp,
                ret |-> call_meta(memory_state, resp)]
    /\ UNCHANGED <<all_sessions, active_session, pc, outcome, turns, entry,
                   telemetry, critic, stage, new_calculated_stage, calls,
                   user_msg>>

EnsureCard(memory_state, strategy_card) ==
    /\ call.fn = "None"
    /\ call' = [fn |-> "ensure_strategy_card",
                memory_state |-> memory_state,
                strategy_card |-> strategy_card,
                ret |-> ensure_strategy_card(memory_state, strategy_card),
                twice |-> ensure_strategy_card(
                              memory_state,
                              ensure_strategy_card(memory_state, strategy_card))]
    /\ UNCHANGED <<all_sessions, active_session, pc, outcome, turns, entry,
                   telemetry, critic, stage, new_calculated_stage, calls,
                   user_msg>>

\* the call returns to its caller
Return ==
    /\ call.fn # "None"
    /\ call' = [fn |-> "None"]
    /\ UNCHANGED <<all_sessions, active_session, pc, outcome, turns, entry,
                   telemetry, critic, stage, new_calculated_stage, calls,
                   user_msg>>

NextCalls ==
    \/ \E m \in CallStates, r \in CriticOutputs : CallCritic(m, r)
    \/ \E m \in CallStates, r \in MetaOutputs : CallMeta(m, r)
    \/ \E m \in CallStates, c \in PriorCards : EnsureCard(m, c)
    \/ Return

SpecCalls == Init /\ [][NextCalls]_vars

(***************************************************************************)
(* Sequences of merges: apply_memory_write applied to a session, then to   *)
(* what it returned                                                        *)
(***************************************************************************)
MaxMerges == 3
\* the number of characters the tokens "L1", "L2", "L3" stand for
LongLen == 200

LongRuns == {"L1", "L2", "L3"}
RECURSIVE StrLen(_)
StrLen(str) ==
    IF str = <<>> THEN 0
    ELSE (IF Head(str) \in LongRuns THEN LongLen ELSE 1) + StrLen(Tail(str))

MergeStates ==
    {init_new_session("C-demo"),
     refresh_parameters(init_new_session("C-demo"), 1, 0, 0)}

ReasonDetails ==
    {<<>>, <<"r1">>, <<"r2">>, <<"L1">>, <<"L2">>, <<"L3">>}
MergePatches ==
    {EmptyDict,
     [unresolved_obstacles |-> <<"o1">>],
     [unresolved_obstacles |-> <<"o2", "o1", "o2">>],
     [unresolved_obstacles |-> "o3", reason_category |-> "other"],
     [history_raw_reasons |-> <<"o1", "o3">>],
     [strategy_card |-> [pressure_level |-> "firm"]],
     [reason_category |-> "illness", payment_refusals |-> 1],
     [unresolved_obstacles |-> <<"o3", "o2">>, reason_detail |-> <<"r1">>,
      ability_score |-> "zero"]}
    \cup {[reason_detail |-> v] : v \in ReasonDetails}

\* the record of a call: arguments, returned dict, the argument as the
\* call left it, the result of merging the same patch once more, and the
\* reason_detail values merged since the sequence began
MergeRecord(memory, memory_write, n, details) ==
    LET ret == apply_memory_write(memory, memory_write)
    IN  [fn |-> "apply_memory_write",
         memory |-> memory,
         memory_write |-> memory_write,
         ret |-> ret,
         memory_after |-> memory_after_merge(memory, memory_write),
         returns_argument |-> returns_argument(memory_write),
         twice |-> apply_memory_write(ret, memory_write),
         n |-> n,
         details |-> IF "reason_detail" \in DOMAIN memory_write
                     THEN Append(details, memory_write.reason_detail)
                     ELSE details]

UnchangedByCall ==
    UNCHANGED <<all_sessions, active_session, pc, outcome, turns, entry,
                telemetry, critic, stage, new_calculated_stage, calls,
                user_msg>>

MergeCall(memory, memory_write) ==
    /\ call.fn = "None"
    /\ call' = MergeRecord(memory, memory_write, 1, <<>>)
    /\ UnchangedByCall

MergeAgain(memory_write) ==
    /\ call.fn = "apply_memory_write"
    /\ call.n < MaxMerges
    /\ call' = MergeRecord(call.ret, memory_write, call.n + 1, call.details)
    /\ UnchangedByCall

NextMerge ==
    \/ \E m \in MergeStates, p \in MergePatches : MergeCall(m, p)
    \/ \E p \in MergePatches : MergeAgain(p)
    \/ Return

SpecMerge == Init /\ [][NextMerge]_vars

(***************************************************************************)
(* The business rules called on their own                                  *)
(***************************************************************************)
MaxDpd == 7
MaxCounter == 4

DpdArgs == -2 .. MaxDpd
CounterArgs == -1 .. MaxCounter

CallStage(dpd, broken_promises, payment_refusals) ==
    /\ call.fn = "None"
    /\ call' = [fn |-> "calculate_stage",
                dpd |-> dpd,
                broken_promises |-> broken_promises,
                payment_refusals |-> payment_refusals,
                ret |-> calculate_stage(dpd, broken_promises,
                                        payment_refusals)]
    /\ UnchangedByCall

CallSop(dpd, broken_promises) ==
    /\ call.fn = "None"
    /\ call' = [fn |-> "sop_trigger_named_escalation",
                dpd |-> dpd,
                broken_promises |-> broken_promises,
                ret |-> sop_trigger_named_escalation(dpd, broken_promises)]
    /\ UnchangedByCall

\* the legacy function of this version: it delegates to calculate_stage
dpd_to_stage(dpd) == calculate_stage(dpd, 0, 0)

\* dpd_to_stage as test_gpt52.py first defines it: the DPD-only mapping
dpd_to_stage_gpt52(dpd) ==
    IF dpd < 0 THEN "Stage0"
    ELSE IF dpd = 0 THEN "Stage1"
    ELSE IF dpd = 1 THEN "Stage2"
    ELSE IF 2 <= dpd /\ dpd <= 3 THEN "Stage3"
    ELSE "Stage4"

CallDpdToStage(dpd) ==
    /\ call.fn = "None"
    /\ call' = [fn |-> "dpd_to_stage",
                dpd |-> dpd,
                ret |-> dpd_to_stage(dpd)]
    /\ UnchangedByCall

NextRules ==
    \/ \E d \in DpdArgs, b \in CounterArgs, p \in CounterArgs :
           CallStage(d, b, p)
    \/ \E d \in DpdArgs : CallDpdToStage(d)
    \/ \E d \in DpdArgs, b \in CounterArgs : CallSop(d, b)
    \/ Return

SpecRules == Init /\ [][NextRules]_vars

(***************************************************************************)
(* app_easy.py: the MemoryLayer and its intent oracle.  A user message is   *)
(* the record of what the code tests on it: the keywords it contains       *)
(* (written in pinyin), its length in characters, the digits the date      *)
(* pattern finds before a month or day character, the full date it finds,  *)
(* and the first run of digits.  Oracle replies are sequences of           *)
(* characters.                                                             *)
(***************************************************************************)
MaxExtracts == 2

\* self.memory after __init__
MemoryLayer ==
    [intent_to_pay_today |-> None,
     payment_refusals |-> 0,
     broken_promises |-> 0,
     reason_category |-> "",
     ability_score |-> "",
     reason_detail |-> <<>>,
     unresolved_obstacles |-> <<>>,
     history_summary |-> "",
     history_broken_promises |-> 0,
     history_reason_category |-> "",
     history_ability_score |-> "",
     has_ability_confirmed |-> FALSE,
     payment_date_confirmed |-> <<>>,
     payment_amount_confirmed |-> "",
     payment_type_confirmed |-> "",
     extension_requested |-> FALSE]

\* str.strip(): leading and trailing whitespace is removed
Whitespace == {" ", "\n"}
RECURSIVE lstrip_ws(_)
lstrip_ws(str) ==
    IF str # <<>> /\ Head(str) \in Whitespace THEN lstrip_ws(Tail(str)) ELSE str
RECURSIVE rstrip_ws(_)
rstrip_ws(str) ==
    IF str # <<>> /\ str[Len(str)] \in Whitespace
    THEN rstrip_ws(SubSeq(str, 1, Len(str) - 1))
    ELSE str
strip_ws(str) == rstrip_ws(lstrip_ws(str))

\* call_llm of app_easy.py: the stripped content, or "Error" when the
\* request raises
call_llm(resp) ==
    IF resp.t = "ApiRaise" THEN <<"E", "r", "r", "o", "r">>
    ELSE strip_ws(resp.data)

\* int(s): an optional sign and decimal digits give [int |-> n], anything
\* else raises ValueError
Digits == <<"0", "1", "2", "3", "4", "5", "6", "7", "8", "9">>
IsDigit(c) == \E i \in DOMAIN Digits : Digits[i] = c
DigitValue(c) == (CHOOSE i \in DOMAIN Digits : Digits[i] = c) - 1
RECURSIVE DecimalValue(_)
DecimalValue(str) ==
    IF str = <<>> THEN 0
    ELSE 10 * DecimalValue(SubSeq(str, 1, Len(str) - 1))
         + DigitValue(str[Len(str)])
py_int(str) ==
    LET signed == str # <<>> /\ Head(str) \in {"+", "-"}
        body == IF signed THEN Tail(str) ELSE str
    IN  IF body = <<>> \/ \E i \in DOMAIN body : ~IsDigit(body[i])
        THEN Raised
        ELSE IF signed /\ Head(str) = "-"
        THEN [int |-> 0 - DecimalValue(body)]
        ELSE [int |-> DecimalValue(body)]

detect_payment_intent(resp) ==
    LET result == call_llm(resp)
        intent == py_int(strip_ws(result))
    IN  IF intent = Raised THEN 0
        ELSE IF intent.int = 1 THEN 1 ELSE 0

\* kw in user_msg, for one or for any of several keywords
HasKw(msg, kws) == msg.kw \cap kws # {}

\* step 2
ability_score_of(memory, msg) ==
    IF HasKw(msg, {"quan"}) /\ HasKw(msg, {"huan", "zhifu"})
    THEN "full"
    ELSE IF HasKw(msg, {"bufen", "yidian", "yixie", "xian"})
    THEN "partial"
    ELSE IF HasKw(msg, {"meiqian", "wuli", "meibanfa"})
    THEN "zero"
    ELSE memory.ability_score

\* step 3
reason_category_of(msg) ==
    IF HasKw(msg, {"shiye", "meigongzuo", "shouru", "caiyuan"})
    THEN "unemployment"
    ELSE IF HasKw(msg, {"shengbing", "yiliao", "jiankang", "zhuyuan"})
    THEN "illness"
    ELSE IF HasKw(msg, {"wangji", "wangle", "meixiangqi"})
    THEN "forgot"
    ELSE IF HasKw(msg, {"jujue", "buxiang", "tuoyan", "bupeihe"})
    THEN "malicious_delay"
    ELSE "other"

\* step 4: reason_detail is the sequence of the snippets joined so far; no
\* message of ExtractMsgs is part of another one, so "snippet not in
\* existing" is membership, and their lengths stay far below the cap of
\* 500 characters
reason_detail_of(memory, msg, intent) ==
    IF msg.chars > 5 /\ intent = 0
    THEN IF memory.reason_detail # <<>>
         THEN IF ~Contains(memory.reason_detail, msg.text)
              THEN Append(memory.reason_detail, msg.text)
              ELSE memory.reason_detail
         ELSE <<msg.text>>
    ELSE memory.reason_detail

\* step 5
obstacle_keywords ==
    <<<<"kaiche", "driving">>, <<"mang", "busy">>, <<"huiyi", "meeting">>,
      <<"shuijiao", "sleeping">>, <<"haizi", "with_child">>,
      <<"bing", "unwell">>, <<"shouji", "phone_problem">>,
      <<"wangluo", "network_problem">>>>
RECURSIVE obstacles_of(_, _, _)
obstacles_of(list, msg, i) ==
    IF i > Len(obstacle_keywords) THEN list
    ELSE LET kw == obstacle_keywords[i][1]
             obstacle == obstacle_keywords[i][2]
         IN  obstacles_of(IF HasKw(msg, {kw}) /\ ~Contains(list, obstacle)
                          THEN Append(list, obstacle) ELSE list,
                          msg, i + 1)

\* step 6: the date
payment_date_of(memory, msg) ==
    IF HasKw(msg, {"mingtian"}) THEN <<"tomorrow">>
    ELSE IF HasKw(msg, {"houtian"}) THEN <<"day_after_tomorrow">>
    ELSE IF msg.day # "None" THEN <<"2025-12-", msg.day>>
    ELSE IF msg.date # "None" THEN <<msg.date>>
    ELSE memory.payment_date_confirmed

extract_from_dialogue(memory, msg, resp) ==
    LET intent == detect_payment_intent(resp)
        full == HasKw(msg, {"quane", "quanbu", "suoyou"})
        partial == ~full /\ HasKw(msg, {"bufen", "yibufen", "xianhuan"})
    IN  [memory EXCEPT
            !.intent_to_pay_today = intent,
            !.payment_refusals = IF intent = 0 THEN @ + 1 ELSE @,
            !.ability_score = ability_score_of(memory, msg),
            !.reason_category = reason_category_of(msg),
            !.reason_detail = reason_detail_of(memory, msg, intent),
            !.unresolved_obstacles = obstacles_of(@, msg, 1),
            !.payment_date_confirmed = payment_date_of(memory, msg),
            !.payment_type_confirmed =
                IF full THEN "full" ELSE IF partial THEN "partial" ELSE @,
            !.payment_amount_confirmed =
                IF full THEN "quane"
                ELSE IF partial /\ msg.digits # "None"
                THEN msg.digits ELSE @,
            !.has_ability_confirmed =
                IF HasKw(msg, {"youqian", "keyihuan", "nenghuan",
                                    "huihuan"}) THEN TRUE
                ELSE IF HasKw(msg, {"meiqian", "qianbugou",
                                         "meiyouqian"}) THEN FALSE
                ELSE full \/ @,
            !.extension_requested =
                HasKw(msg, {"zhanqi", "yanqi", "tuichi", "kuanxian"})
                \/ @]

\* "no money now, tomorrow"; "I pay it all today"; "fine"; "I am ill and in
\* hospital, 500 first"; "on the 30th a part, 2000"
ExtractMsgs ==
    {[text |-> "m_no_money", kw |-> {"meiqian", "mingtian"}, chars |-> 9,
      day |-> "None", date |-> "None", digits |-> "None"],
     [text |-> "m_all_today", kw |-> {"quan", "quane", "huan"}, chars |-> 6,
      day |-> "None", date |-> "None", digits |-> "None"],
     [text |-> "m_fine", kw |-> {}, chars |-> 2,
      day |-> "None", date |-> "None", digits |-> "None"],
     [text |-> "m_ill", kw |-> {"shengbing", "bing", "zhuyuan", "xian",
                                "huan", "xianhuan"}, chars |-> 12,
      day |-> "None", date |-> "None", digits |-> "500"],
     [text |-> "m_30th", kw |-> {"huan", "bufen", "yibufen"}, chars |-> 11,
      day |-> "30", date |-> "None", digits |-> "30"]}

\* what the intent oracle may answer
IntentOutputs ==
    {ApiRaise}
    \cup {Text("plain", t) : t \in {<<"0">>, <<"1">>, <<" ", "0", "\n">>,
                                    <<"2">>, <<"-", "1">>, <<"n", "o">>,
                                    <<>>, <<"1", ".">>}}

ExtractRecord(memory, msg, resp, n) ==
    [fn |-> "extract_from_dialogue",
     memory |-> memory,
     user_msg |-> msg,
     resp |-> resp,
     ret |-> extract_from_dialogue(memory, msg, resp),
     n |-> n]

\* the first user message of a conversation
ExtractCall(msg, resp) ==
    /\ call.fn = "None"
    /\ call' = ExtractRecord(MemoryLayer, msg, resp, 1)
    /\ UnchangedByCall

\* a further user message, on the memory the previous one left
ExtractAgain(msg, resp) ==
    /\ call.fn = "extract_from_dialogue"
    /\ call.n < MaxExtracts
    /\ call' = ExtractRecord(call.ret, msg, resp, call.n + 1)
    /\ UnchangedByCall

NextExtract ==
    \/ \E m \in ExtractMsgs, r \in IntentOutputs : ExtractCall(m, r)
    \/ \E m \in ExtractMsgs, r \in IntentOutputs : ExtractAgain(m, r)
    \/ Return

SpecExtract == Init /\ [][NextExtract]_vars

(***************************************************************************)
(* Properties                                                              *)
(***************************************************************************)
\* number of StrategyEngine calls in the turn
MetaCalls == Cardinality({i \in DOMAIN calls : calls[i] = "meta"})

\* C1: after every completed handle_turn the active card's stage equals
\* the session's stage
C1_CardStageEqualsMemoryStage ==
    outcome = "completed" =>
        ActiveState.strategy_card.stage = ActiveState.stage

\* C2: a turn whose stage computed from the counters before the merge
\* differs from the stage computed after it calls the StrategyEngine
\* exactly once
C2_StageChangeCallsMetaOnce ==
    (outcome = "completed" /\ stage # new_calculated_stage) => MetaCalls = 1

\* C3: every handle_turn leaves the dialogue it found, followed by the
\* user turn with the given message and one assistant turn
C3_TurnAppendsUserThenAssistant ==
    outcome \in {"completed", "raised"} =>
        LET d == ActiveState.dialogue
            n == Len(entry.dialogue)
        IN  /\ Len(d) = n + 2
            /\ SubSeq(d, 1, n) = entry.dialogue
            /\ d[n + 1] = [role |-> "user", content |-> PlainText(user_msg)]
            /\ d[n + 2].role = "assistant"

\* C4: handle_turn never ends with an unhandled exception
C4_TurnNeverRaises == outcome # "raised"

\* C9: after every completed handle_turn the stored stage is the stage
\* computed from the stored counters
C9_StageIsRecomputed ==
    outcome = "completed" =>
        ActiveState.stage = calculate_stage(ActiveState.dpd,
                                            ActiveState.broken_promises,
                                            ActiveState.payment_refusals)

\* a completed turn whose Gate wrote a stage other than the one stored
C9_Witness ==
    /\ outcome = "completed"
    /\ "stage" \in DOMAIN critic.memory_write
    /\ critic.memory_write.stage # ActiveState.stage
    /\ critic.memory_write.stage # entry.stage

\* C10: in a sequence of automated turns, the merge of a turn leaves
\* broken_promises and payment_refusals at least as large as they were
\* when the turn began
C10_CountersNeverDecrease ==
    (entry # None /\ pc \in {"meta", "executor", "render"}) =>
        /\ ActiveState.broken_promises >= entry.broken_promises
        /\ ActiveState.payment_refusals >= entry.payment_refusals

\* the Gate's oracle call failed or its output is not a schema-valid
\* GateDecision
GateOracleFailed(resp) ==
    \/ resp.t # "Text"
    \/ resp.form \notin JsonForms
    \/ resp.data \notin ValidCriticData

\* C5: call_critic always returns a GateDecision; on a failed oracle call
\* or unusable output it is ESCALATE_TO_META with reason_codes
\* [critic_failed] and an empty memory_write, whose merge changes nothing
C5_FailedGateEscalatesAndWritesNothing ==
    call.fn = "call_critic" =>
        /\ call.ret # Raised
        /\ call.ret # Invalid
        /\ GateOracleFailed(call.resp) =>
              /\ call.ret.decision = "ESCALATE_TO_META"
              /\ call.ret.reason_codes = <<"critic_failed">>
              /\ call.ret.memory_write = EmptyDict
              /\ call.merged = call.memory_state

\* the oracle answered with a decision outside the four allowed values
\* and a memory_write, and the Gate failed closed
C5_Witness ==
    /\ call.fn = "call_critic"
    /\ call.resp.t = "Text"
    /\ call.resp.form = "fenced"
    /\ call.resp.data = [decision |-> "RETRY", decision_reason |-> <<"reason">>,
                         memory_write |-> [payment_refusals |-> 0]]
    /\ call.memory_state.payment_refusals = 1
    /\ call.ret.reason_codes = <<"critic_failed">>

\* the Meta oracle's call failed or its output is not a schema-valid card
MetaOracleFailed(resp) ==
    \/ resp.t # "Text"
    \/ resp.form \notin JsonForms
    \/ resp.data \notin ValidMetaData

\* the fields a catalog template fixes for its stage
TemplateOf(card) ==
    [today_kpi |-> card.today_kpi, pressure_level |-> card.pressure_level,
     allowed_actions |-> card.allowed_actions, guardrails |-> card.guardrails]

\* C6: on a failed Meta oracle call_meta returns the default catalog card
\* of the session's stage
C6_MetaFallbackIsCatalogCard ==
    (call.fn = "call_meta" /\ MetaOracleFailed(call.resp)) =>
        /\ call.ret # Raised
        /\ call.ret.stage = call.memory_state.stage
        /\ TemplateOf(call.ret) =
              TemplateOf(DefaultCard(call.memory_state, call.memory_state.stage))

\* the marker earlier versions of call_meta append to notes
AlignmentMarker == "stage_forced_to_memory_state"

\* C7: a card the Meta oracle produced for another stage is returned with
\* the session's stage and with the alignment marker in its notes
C7_AlignedCardIsAnnotated ==
    (/\ call.fn = "call_meta"
     /\ ~MetaOracleFailed(call.resp)
     /\ call.resp.data.stage # call.memory_state.stage) =>
        /\ call.ret.stage = call.memory_state.stage
        /\ \E i \in DOMAIN call.ret.notes : call.ret.notes[i] = AlignmentMarker

\* a card as the StrategyCard schema describes it
SchemaValidCard(card) ==
    /\ DOMAIN card = {"strategy_id", "stage", "today_kpi", "pressure_level",
                      "allowed_actions", "guardrails",
                      "escalation_actions_allowed", "params", "notes"}
    /\ card.pressure_level \in PressureLevel
    /\ card.strategy_id # <<>>

\* C8: for every stage and every prior card ensure_strategy_card and
\* call_meta return a schema-valid card of the session's stage
C8_CardsAreValidAndOfMemoryStage ==
    call.fn \in {"ensure_strategy_card", "call_meta"} =>
        /\ call.ret # Raised
        /\ call.ret # Invalid
        /\ SchemaValidCard(call.ret)
        /\ call.ret.stage = call.memory_state.stage

\* ensure_strategy_card was given a valid card of another stage
C8_Witness ==
    /\ call.fn = "ensure_strategy_card"
    /\ call.memory_state.stage = "Stage0"
    /\ call.strategy_card = MetaCard("Stage4", "firm")
    /\ call.ret.stage = "Stage0"

IsMerge == call.fn = "apply_memory_write"

\* C11: merging a patch of cumulative list, nested-map and scalar keys a
\* second time changes nothing: merge(merge(S,P),P) = merge(S,P)
C11_MergeIdempotent ==
    (IsMerge /\ "reason_detail" \notin DOMAIN call.memory_write) =>
        call.twice = call.ret

\* a patch with an obstacle the session did not hold was merged into a
\* session that already held another
C11_Witness ==
    /\ IsMerge
    /\ call.memory.unresolved_obstacles = <<"o1">>
    /\ call.memory_write = [unresolved_obstacles |-> <<"o2", "o1", "o2">>]
    /\ call.ret.unresolved_obstacles = <<"o1", "o2">>

\* C12: merging the identical patch twice leaves reason_detail as the
\* first merge left it
C12_ReasonDetailIdempotent ==
    (IsMerge /\ "reason_detail" \in DOMAIN call.memory_write) =>
        call.twice.reason_detail = call.ret.reason_detail

\* the cap on the length of reason_detail
ReasonDetailCap == 500

Distinct(seq) == \A i, j \in DOMAIN seq : i # j => seq[i] # seq[j]
Occurs(part, str) ==
    \E i \in 0 .. Len(str) - Len(part) :
        SubSeq(str, i + 1, i + Len(part)) = part

\* C13: after merges of distinct non-empty reason_detail values the stored
\* text is no longer than the cap and holds the last merged value in full
C13_ReasonDetailCapped ==
    (/\ IsMerge
     /\ "reason_detail" \in DOMAIN call.memory_write
     /\ Distinct(call.details)
     /\ \A i \in DOMAIN call.details : call.details[i] # <<>>) =>
        /\ StrLen(call.ret.reason_detail) <= ReasonDetailCap
        /\ Occurs(call.memory_write.reason_detail, call.ret.reason_detail)

\* C14: the call leaves the dict passed as memory as it was and returns
\* another object
C14_MergeLeavesArgument ==
    IsMerge =>
        /\ call.memory_after = call.memory
        /\ ~call.returns_argument

Elems(seq) == {seq[i] : i \in DOMAIN seq}
FirstIndex(seq, x) == CHOOSE i \in DOMAIN seq :
                         seq[i] = x /\ \A j \in 1 .. i - 1 : seq[j] # x

\* C15: under a cumulative key the merge yields the stored list followed
\* by the patch items it did not hold, each once, in patch order; a bare
\* value counts as a list of one item
C15_CumulativeUnionInOrder ==
    IsMerge =>
        \A k \in cumulative_list_fields \cap DOMAIN call.memory_write :
            LET cur == Get(call.memory, k, <<>>)
                v == call.memory_write[k]
                items == IF IsList(v) THEN v ELSE <<v>>
                r == call.ret[k]
                added == (Len(cur) + 1) .. Len(r)
            IN  /\ Len(r) >= Len(cur)
                /\ SubSeq(r, 1, Len(cur)) = cur
                /\ Elems(r) = Elems(cur) \cup Elems(items)
                /\ \A i \in added : r[i] \notin Elems(cur)
                /\ \A i, j \in added :
                       i < j => FirstIndex(items, r[i]) < FirstIndex(items, r[j])

\* a bare value was merged into a list that held other items
C15_Witness ==
    /\ IsMerge
    /\ call.memory.unresolved_obstacles = <<"o1", "o2">>
    /\ DOMAIN call.memory_write = {"unresolved_obstacles", "reason_category"}
    /\ ~IsList(call.memory_write.unresolved_obstacles)
    /\ call.ret.unresolved_obstacles = <<"o1", "o2", "o3">>

\* the risk score of the arguments of a calculate_stage call
Score == 10 * call.dpd + 15 * call.broken_promises + 20 * call.payment_refusals

\* C16 as stated: calculate_stage returns Stage0 exactly when dpd < 0 and
\* otherwise Stage1 iff score = 0, Stage2 iff 0 < score < 30, Stage3 iff
\* 30 <= score < 60, Stage4 iff score >= 60, for all integer arguments
C16_StageIsReferenceMapping ==
    call.fn = "calculate_stage" =>
        /\ call.ret \in Stages
        /\ call.ret = "Stage0" <=> call.dpd < 0
        /\ call.dpd >= 0 =>
              /\ call.ret = "Stage1" <=> Score = 0
              /\ call.ret = "Stage2" <=> (0 < Score /\ Score < 30)
              /\ call.ret = "Stage3" <=> (30 <= Score /\ Score < 60)
              /\ call.ret = "Stage4" <=> Score >= 60

\* C16 as amended: the same mapping with Stage2 iff score < 30 and
\* score # 0, so that a negative score of a due debt is Stage2
C16_StageIsMappingWithNegativeScores ==
    call.fn = "calculate_stage" =>
        /\ call.ret \in Stages
        /\ call.ret = "Stage0" <=> call.dpd < 0
        /\ call.dpd >= 0 =>
              /\ call.ret = "Stage1" <=> Score = 0
              /\ call.ret = "Stage2" <=> (Score < 30 /\ Score # 0)
              /\ call.ret = "Stage3" <=> (30 <= Score /\ Score < 60)
              /\ call.ret = "Stage4" <=> Score >= 60

\* a due debt with a negative counter was classified
C16_Witness ==
    /\ call.fn = "calculate_stage"
    /\ call.dpd = 0 /\ call.broken_promises = -1 /\ call.payment_refusals = 0
    /\ call.ret = "Stage2"

\* C17: sop_trigger_named_escalation is true exactly when
\* broken_promises >= 1 and dpd > 3
C17_SopTriggerExact ==
    call.fn = "sop_trigger_named_escalation" =>
        /\ call.ret \in BOOLEAN
        /\ call.ret <=> (call.broken_promises >= 1 /\ call.dpd > 3)
        /\ call.dpd = 3 => ~call.ret
        /\ call.broken_promises = 0 => ~call.ret

\* the trigger was evaluated just above the day bound with one broken
\* promise
C17_Witness ==
    /\ call.fn = "sop_trigger_named_escalation"
    /\ call.dpd = 4 /\ call.broken_promises = 1
    /\ call.ret = TRUE

\* C18: the payload of every oracle call of a turn holds no dialogue turn
\* older than the last K, in recent_dialogue or inside memory_state
C18_PayloadHoldsRecentTurnsOnly ==
    OracleCallPending =>
        /\ Len(payload.recent_dialogue) <= K
        /\ Len(payload.memory_state.dialogue) <= K

IsPrefix(a, b) == Len(a) <= Len(b) /\ SubSeq(b, 1, Len(a)) = a

\* C19: the dialogue a handle_turn found is a prefix of the dialogue it
\* leaves
C19_DialogueAppendOnly ==
    outcome \in {"completed", "raised"} =>
        IsPrefix(entry.dialogue, ActiveState.dialogue)

\* C20: a step changes the active card only to a default catalog card or
\* to the card call_meta returns; no step changes fields of it
C20_CardReplacedWholesale ==
    [][LET old == ActiveState.strategy_card
           new == ActiveState'.strategy_card
       IN  \/ new = old
           \/ new = DefaultCard(ActiveState', ActiveState'.stage)
           \/ /\ pc = "meta"
              /\ critic.decision = "ESCALATE_TO_META"
              /\ \E r \in MetaOutputs \cup SeqMetaOutputs :
                    new = call_meta(ActiveState, r)]_vars

\* C21: when a turn ends, the session and the copy that differed from it
\* in last_turn_telemetry only have the same outcome and agree on every
\* other field (memory, strategy card, dialogue)
C21_TelemetryNeverAffectsTurn ==
    (call.fn = "handle_turn" /\ outcome \in {"completed", "raised"}) =>
        /\ call.outcome = outcome
        /\ WithoutTelemetry(call.state) = WithoutTelemetry(ActiveState)

\* a completed turn of a session without telemetry beside a copy whose
\* telemetry reports a strategy change, with a Gate that patched the
\* telemetry field
C21_Witness ==
    /\ call.fn = "handle_turn"
    /\ outcome = "completed"
    /\ "last_turn_telemetry" \notin DOMAIN entry
    /\ call.entry_telemetry = StoredTelemetry(TRUE)
    /\ "last_turn_telemetry" \in DOMAIN critic.memory_write

\* C22: after a history import whose oracle call failed or whose output
\* could not be parsed, history_summary is the empty string
C22_FailedImportLeavesEmptySummary ==
    outcome \in {"import_parse_error", "import_raised"} =>
        ActiveState.history_summary = PlainText("")

\* the list objects of a session
ObjectsOf(c) == {call.objects[c][f] : f \in ListFields}

\* is the step part of a handle_turn?
TurnStep ==
    \/ pc = "idle" /\ pc' = "critic"
    \/ pc \in {"critic", "meta", "executor"}

\* C23: a handle_turn step leaves every session but the active one as it
\* was, and no two sessions hold the same list object of init_new_session
C23_CustomersShareNothing ==
    /\ [](\A c1, c2 \in DOMAIN all_sessions :
              c1 # c2 => ObjectsOf(c1) \cap ObjectsOf(c2) = {})
    /\ [][TurnStep =>
              /\ DOMAIN all_sessions' = DOMAIN all_sessions
              /\ \A c \in DOMAIN all_sessions \ {active_session} :
                     all_sessions'[c] = all_sessions[c]]_vars

\* a completed turn of one customer while another customer's session holds
\* a dialogue of its own
C23_Witness ==
    /\ outcome = "completed"
    /\ \E c \in DOMAIN all_sessions \ {active_session} :
           /\ all_sessions[c].dialogue # <<>>
           /\ all_sessions[c].dialogue # ActiveState.dialogue

\* C24: a turn abandoned before the assistant message is appended leaves
\* the stored stage equal to the stage of the stored counters, the active
\* card of the stored stage, and the active card complete
C24_AbandonedTurnLeavesConsistentState ==
    outcome = "abandoned" =>
        /\ ActiveState.stage = stage_of_counters(ActiveState)
        /\ SchemaValidCard(ActiveState.strategy_card)
        /\ ActiveState.strategy_card.stage = ActiveState.stage

\* does a sequence hold the item?
Has(seq, x) == \E i \in DOMAIN seq : seq[i] = x

\* C25: a GateDecision used in a turn whose reason_codes hold
\* dead_loop_detected has decision ESCALATE_TO_META and writes
\* payment_refusals = the pre-turn value plus one
C25_DeadLoopCouplingEnforced ==
    (critic # None /\ Has(critic.reason_codes, "dead_loop_detected")) =>
        /\ critic.decision = "ESCALATE_TO_META"
        /\ "payment_refusals" \in DOMAIN critic.memory_write
        /\ critic.memory_write.payment_refusals = entry.payment_refusals + 1

\* C28: no turn whose Gate decided HANDOFF, and no turn that follows one,
\* ends with an assistant message generated by the Executor
C28_HandoffStopsAutomatedMessaging ==
    outcome = "completed" =>
        /\ ActiveState.last_critic.decision # "HANDOFF"
        /\ entry.last_critic # None => entry.last_critic.decision # "HANDOFF"

\* the turn began with dpd = 1 and no broken promise or refusal, and the
\* Gate answered ESCALATE_TO_META with memory_write {payment_refusals: 1}
EscalationScenario ==
    /\ entry.dpd = 1
    /\ entry.broken_promises = 0
    /\ entry.payment_refusals = 0
    /\ ActiveState.last_critic.decision = "ESCALATE_TO_META"
    /\ ActiveState.last_critic.memory_write = [payment_refusals |-> 1]

\* C26: the escalation scenario ends with stage Stage3, one call of the
\* StrategyEngine and an active card of Stage3, whatever its oracle does
C26_EscalationScenarioReachesStage3 ==
    (outcome \in {"completed", "raised"} /\ EscalationScenario) =>
        /\ ActiveState.stage = "Stage3"
        /\ MetaCalls = 1
        /\ ActiveState.strategy_card.stage = "Stage3"

\* the scenario completed with a card of the StrategyEngine's oracle
C26_Witness ==
    /\ outcome = "completed"
    /\ EscalationScenario
    /\ ActiveState.strategy_card.strategy_id = <<"meta_plan">>

\* the oracle is unavailable: the client cannot be built or the API call
\* fails
Unavailable == {ClientRaise, ApiRaise}

\* C27: a step of a turn whose oracle call found the oracle unavailable
\* ends the turn with an error and leaves the session as it was before
\* the call
C27_UnavailableOracleWritesNothing ==
    [][\A r \in Unavailable :
          (CriticStep(r) \/ MetaCall(r) \/ ExecutorStep(r)) =>
              /\ all_sessions' = all_sessions
              /\ outcome' = "raised"]_vars

\* the oracle calls made so far, by the point handle_turn has reached
CallsInOrder ==
    /\ pc = "critic" => calls = <<>>
    /\ pc = "meta" => calls = <<"critic">>
    /\ pc = "executor" => calls \in {<<"critic">>, <<"critic", "meta">>}
    /\ outcome \in {"completed", "raised"} =>
           calls \in {<<"critic", "executor">>, <<"critic", "meta", "executor">>}

\* the counters the Gate wrote are in the session once the Gate has answered
MergedBeforeMeta ==
    pc \in {"meta", "executor"} =>
        \A k \in DOMAIN critic.memory_write \cap
                  {"broken_promises", "payment_refusals"} :
            ActiveState[k] = critic.memory_write[k]

\* C29: in every turn the oracle is called for the Gate once, then for
\* Meta at most once, then for the Executor once, the memory is merged
\* before Meta, and the Executor is given the merged session and the card
\* that is active when the turn ends
C29_OracleCallsInOrder ==
    /\ [](CallsInOrder /\ MergedBeforeMeta)
    /\ [][pc = "executor" =>
              /\ payload.memory_state = ActiveState
              /\ payload.strategy_card = ActiveState'.strategy_card]_vars

\* a completed turn with all three calls, a counter written by the Gate
\* and a card of the StrategyEngine's oracle
C29_Witness ==
    /\ outcome = "completed"
    /\ calls = <<"critic", "meta", "executor">>
    /\ "payment_refusals" \in DOMAIN critic.memory_write
    /\ ActiveState.strategy_card.strategy_id = <<"meta_plan">>

\* the card handle_turn ensured before it called the Gate
EnsuredCard == handle_turn_begin(entry, user_msg).state.strategy_card

\* C30: a turn calls the StrategyEngine exactly when the decision after
\* the stage re-check is ESCALATE_TO_META, and a turn whose Gate decided
\* otherwise and whose stage did not change ends with the card ensured
\* before the Gate was called
C30_MetaOnlyOnEscalation ==
    outcome \in {"completed", "raised"} =>
        /\ MetaCalls = 1 <=> critic.decision = "ESCALATE_TO_META"
        /\ (/\ ActiveState.last_critic.decision # "ESCALATE_TO_META"
            /\ stage = new_calculated_stage) =>
               ActiveState.strategy_card = EnsuredCard

\* a prior card that passes the schema and is of the session's stage
KeepsPrior(memory_state, strategy_card) ==
    /\ strategy_card # None
    /\ strategy_card # EmptyDict
    /\ StrategyCard(strategy_card) # Invalid
    /\ strategy_card.stage = memory_state.stage

\* C31: ensure_strategy_card returns the prior card, completed by the
\* schema's defaults and otherwise unchanged, exactly when it is
\* schema-valid and of the session's stage, and the catalog card of the
\* session's stage in every other case; applying it to its own result
\* changes nothing
C31_EnsureKeepsOrDefaultsAndIsIdempotent ==
    call.fn = "ensure_strategy_card" =>
        LET m == call.memory_state
            c == call.strategy_card
        IN  /\ KeepsPrior(m, c) =>
                   /\ SchemaValidCard(call.ret)
                   /\ \A f \in DOMAIN c : call.ret[f] = c[f]
            /\ ~KeepsPrior(m, c) => call.ret = DefaultCard(m, m.stage)
            /\ call.twice = call.ret

\* a valid card of another stage was replaced, and a valid card of the
\* session's stage with fields left to the defaults was kept
C31_Witness ==
    /\ call.fn = "ensure_strategy_card"
    /\ \/ /\ call.strategy_card = MetaCard("Stage4", "firm")
          /\ call.memory_state.stage = "Stage1"
       \/ /\ call.strategy_card = [strategy_id |-> <<"meta_min">>, stage |-> "Stage1"]
          /\ call.memory_state.stage = "Stage1"
          /\ call.ret.strategy_id = <<"meta_min">>

\* are the stored value and the patch value of key k both maps?
BothMaps(memory, memory_write, k) ==
    /\ k \in DOMAIN memory
    /\ IsDict(k, memory[k])
    /\ IsDict(k, memory_write[k])

C33_LegacyStageMappingKept ==
    call.fn = "dpd_to_stage" => call.ret = dpd_to_stage_gpt52(call.dpd)

\* C34: after every completed handle_turn the stored flag
\* sop_trigger_named_escalation is the trigger evaluated on the stored dpd
\* and broken_promises
C34_SopFlagFollowsMergedCounters ==
    outcome = "completed" =>
        ActiveState.sop_trigger_named_escalation =
            sop_trigger_named_escalation(ActiveState.dpd,
                                         ActiveState.broken_promises)

\* the severity order Stage0 < Stage1 < Stage2 < Stage3 < Stage4
StageRank(s) ==
    [Stage0 |-> 0, Stage1 |-> 1, Stage2 |-> 2, Stage3 |-> 3, Stage4 |-> 4][s]

\* C35: for non-negative counters, a larger dpd, broken_promises or
\* payment_refusals with the other two unchanged never gives a less
\* severe stage
C35_StageMonotoneInRisk ==
    (/\ call.fn = "calculate_stage"
     /\ call.dpd >= 0
     /\ call.broken_promises >= 0
     /\ call.payment_refusals >= 0) =>
        /\ \A d \in call.dpd .. MaxDpd :
               StageRank(calculate_stage(d, call.broken_promises,
                                         call.payment_refusals))
                   >= StageRank(call.ret)
        /\ \A b \in call.broken_promises .. MaxCounter :
               StageRank(calculate_stage(call.dpd, b, call.payment_refusals))
                   >= StageRank(call.ret)
        /\ \A p \in call.payment_refusals .. MaxCounter :
               StageRank(calculate_stage(call.dpd, call.broken_promises, p))
                   >= StageRank(call.ret)

\* a call with non-negative counters just below a threshold: one more day
\* gives the next stage
C35_Witness ==
    /\ call.fn = "calculate_stage"
    /\ call.dpd = 2 /\ call.broken_promises = 0 /\ call.payment_refusals = 0
    /\ call.ret = "Stage2"
    /\ calculate_stage(3, 0, 0) = "Stage3"

\* the strategy_id of the catalog card of a stage
CatalogId(s) == DefaultCard(EmptyDict, s).strategy_id

\* C36: while the page is at rest, a Stage4 catalog card allows
\* contact_workplace and social_media_mention only if the stored
\* sop_trigger_named_escalation is true, and the catalog cards of Stage0,
\* Stage1 and Stage2 allow no escalation action
C36_EscalationPermissionsWithinSopTrigger ==
    LET sc == ActiveState.strategy_card
    IN  (pc = "idle" /\ "strategy_id" \in DOMAIN sc) =>
            /\ sc.strategy_id = CatalogId("Stage4") =>
                   /\ sc.escalation_actions_allowed.contact_workplace =>
                          ActiveState.sop_trigger_named_escalation
                   /\ sc.escalation_actions_allowed.social_media_mention =>
                          ActiveState.sop_trigger_named_escalation
            /\ sc.strategy_id \in {CatalogId("Stage0"), CatalogId("Stage1"),
                                    CatalogId("Stage2")} =>
                   sc.escalation_actions_allowed = EmptyDict

\* C37: under create, select and delete the session table is never empty
\* and active_session names one of its sessions; a create with an id the
\* table holds changes no session, and a delete with one session left
\* removes nothing
C37_SessionTableStaysValid ==
    /\ [](DOMAIN all_sessions # {} /\ active_session \in DOMAIN all_sessions)
    /\ [][(((\E c \in CustomerIds : CreateExisting(c))
             \/ (Cardinality(DOMAIN all_sessions) = 1 /\ DeleteSession))
            => (all_sessions' = all_sessions
                /\ active_session' = active_session))]_vars

\* the first session was deleted while it was active: the table holds the
\* two created after it and the older of them is active
C37_Witness ==
    /\ outcome = "deleted"
    /\ DOMAIN all_sessions = {"C-new", "C-2"}
    /\ active_session = first_session_key(call.objects)
    /\ call.objects["C-new"].dialogue.alloc = 3

\* the facts a history import stores besides the summary
LearnedFacts(state) ==
    [k \in {"broken_promises", "reason_category", "ability_score",
            "reason_detail"} |-> state[k]]

\* C38: a history import whose oracle output cannot be parsed leaves the
\* stored broken_promises, reason_category, ability_score and reason_detail
\* as they were
C38_FailedImportKeepsLearnedFacts ==
    [][outcome' = "import_parse_error" =>
           LearnedFacts(ActiveState') = LearnedFacts(ActiveState)]_vars

\* the intent oracle answered, and its answer reads as the number 0
ClassifiedZero(resp) ==
    resp.t = "Text" /\ py_int(strip_ws(resp.data)) = [int |-> 0]

\* the intent oracle failed, or its answer is not a number
IntentUnavailable(resp) ==
    resp.t = "ApiRaise" \/ py_int(strip_ws(resp.data)) = Raised

\* C39: extract_from_dialogue never lowers payment_refusals, raises it by
\* exactly one if and only if the intent oracle classified the message as
\* 0, and leaves it unchanged when the oracle fails or answers no number
C39_RefusalsCountOnlyClassifiedRefusals ==
    call.fn = "extract_from_dialogue" =>
        /\ call.ret.payment_refusals >= call.memory.payment_refusals
        /\ (call.ret.payment_refusals = call.memory.payment_refusals + 1)
               <=> ClassifiedZero(call.resp)
        /\ IntentUnavailable(call.resp) =>
               call.ret.payment_refusals = call.memory.payment_refusals

\* C40: after every completed handle_turn the stored last_critic holds the
\* decision ESCALATE_TO_META if and only if the turn called the
\* StrategyEngine
C40_StoredDecisionMatchesMetaCall ==
    outcome = "completed" =>
        (ActiveState.last_critic.decision = "ESCALATE_TO_META"
            <=> MetaCalls = 1)

====
